---- MODULE Spec2Model ----
(***************************************************************************)
(* Model of MCPSecurityScanner (src/mcp_security_scanner.py): the findings *)
(* accumulator, the five bucket scores, the weighted overall score, the    *)
(* certification ladder and the scan() pipeline that drives them.          *)
(*                                                                         *)
(* Scores are held DOUBLED: the integer h stands for the Python value h/2, *)
(* so 20 is 10.0, 2 is 1.0 and every integer is a multiple of 0.5.         *)
(***************************************************************************)
EXTENDS Integers, Sequences, FiniteSets, TLC

VARIABLES repo_path, repo, findings, category_scores, certification, report, pc,
          profile, exit_code, ran, security_files

vars == <<repo_path, repo, findings, category_scores, certification, report, pc,
          profile, exit_code, ran, security_files>>

(***************************************************************************)
(* Bounds of the explored inputs.                                          *)
(***************************************************************************)
MaxRun == 3
MaxPenalty == 18
MaxFill == 15
MaxLines == 2
MaxScans == 2

(***************************************************************************)
(* Finding labels.                                                         *)
(***************************************************************************)
Severities == {"CRITICAL", "HIGH", "MEDIUM", "LOW", "INFO"}

Buckets == {"authentication", "data_protection", "input_validation",
            "prompt_security", "infrastructure"}

\* The category labels the detectors write into findings.
EmittedCategories == {"Authentication", "Authorization", "Multi-tenancy",
                      "Data Protection", "Input Validation", "Error Handling",
                      "Prompt Security", "Content Security", "Rate Limiting",
                      "Logging", "Dependencies", "Configuration"}

\* Labels no detector writes, but which the scoring table or the
\* certification gate name, and two labels nothing names.
OtherCategories == {"Access Control", "Data Persistence", "Encryption",
                    "Data Validation", "API Security", "Prompt Injection",
                    "Secrets Management", "error handling", "Other"}

CategoryLabels == EmittedCategories \cup OtherCategories

\* str.lower() on a category label.
Lower(label) ==
  CASE label = "Authentication"     -> "authentication"
    [] label = "Authorization"      -> "authorization"
    [] label = "Multi-tenancy"      -> "multi-tenancy"
    [] label = "Data Protection"    -> "data protection"
    [] label = "Input Validation"   -> "input validation"
    [] label = "Error Handling"     -> "error handling"
    [] label = "Prompt Security"    -> "prompt security"
    [] label = "Content Security"   -> "content security"
    [] label = "Rate Limiting"      -> "rate limiting"
    [] label = "Logging"            -> "logging"
    [] label = "Dependencies"       -> "dependencies"
    [] label = "Configuration"      -> "configuration"
    [] label = "Access Control"     -> "access control"
    [] label = "Data Persistence"   -> "data persistence"
    [] label = "Encryption"         -> "encryption"
    [] label = "Data Validation"    -> "data validation"
    [] label = "API Security"       -> "api security"
    [] label = "Prompt Injection"   -> "prompt injection"
    [] label = "Secrets Management" -> "secrets management"
    [] label = "Other"              -> "other"
    [] OTHER                        -> label

\* The descriptions the detectors and the inputs use, and whether
\* "hardcoded" occurs in description.lower().
HardcodedDescriptions == {"Hardcoded sensitive data in configuration file",
                          "Hardcoded credential"}

MentionsHardcoded(description) == description \in HardcodedDescriptions

\* A finding dict.
Finding(sev, file, cat, desc) ==
  [severity |-> sev, file |-> file, category |-> cat, description |-> desc]

(***************************************************************************)
(* _calculate_scores                                                       *)
(***************************************************************************)
NoBucket == "none"

\* The if/elif chain from a lowercased category to a scoring bucket.
score_category(category) ==
  IF category \in {"authentication", "authorization", "access control"}
    THEN "authentication"
  ELSE IF category \in {"data persistence", "encryption", "data protection"}
    THEN "data_protection"
  ELSE IF category \in {"data validation", "api security", "input validation"}
    THEN "input_validation"
  ELSE IF category \in {"prompt injection", "content security"}
    THEN "prompt_security"
  ELSE IF category \in {"rate limiting", "logging", "dependencies", "configuration"}
    THEN "infrastructure"
  ELSE NoBucket

\* Points deducted per severity (4, 2, 1, 0.5, and nothing for any other
\* severity), in quarter points.
MutPenaltyHighAsCritical(severity) ==
  CASE severity = "CRITICAL" -> 16
    [] severity = "HIGH"     -> 16
    [] severity = "MEDIUM"   -> 4
    [] severity = "LOW"      -> 2
    [] OTHER                 -> 0

MutPenaltyInfoCounts(severity) ==
  CASE severity = "CRITICAL" -> 16
    [] severity = "HIGH"     -> 8
    [] severity = "MEDIUM"   -> 4
    [] severity = "LOW"      -> 2
    [] OTHER                 -> 2

Penalty(severity) ==
  CASE severity = "CRITICAL" -> 16
    [] severity = "HIGH"     -> 8
    [] severity = "MEDIUM"   -> 4
    [] severity = "LOW"      -> 2
    [] OTHER                 -> 0

\* One pass of the deduction loop body.
Deduct(scores, finding) ==
  LET score_cat == score_category(Lower(finding.category))
  IN  IF score_cat # NoBucket /\ score_cat \in DOMAIN scores
        THEN [scores EXCEPT ![score_cat] = @ - Penalty(finding.severity)]
        ELSE scores

RECURSIVE DeductAll(_, _, _)
DeductAll(scores, fs, i) ==
  IF i > Len(fs) THEN scores
  ELSE DeductAll(Deduct(scores, fs[i]), fs, i + 1)

\* Python round() of the rational n/d (d > 0): nearest integer, ties to even.
PyRound(n, d) ==
  LET q == n \div d
      r == n % d
  IN  IF 2 * r < d THEN q
      ELSE IF 2 * r > d THEN q + 1
      ELSE IF q % 2 = 0 THEN q ELSE q + 1

Max(a, b) == IF a >= b THEN a ELSE b

\* max(1, score) on a score in quarter points.
MutClampNone(q) == q

MutClampWraps(q) == IF q < 4 THEN 40 ELSE q

Clamp(q) == Max(4, q)

\* round(score * 2) / 2: from quarter points to the doubled score.
RoundToHalf(q) == PyRound(q, 2)

\* The loop bodies of _calculate_scores work in quarter points (10 is 40);
\* the stored result is the doubled score.
MutScoresStartAtZero(fs) ==
  LET base     == [b \in Buckets |-> 0]
      deducted == DeductAll(base, fs, 1)
  IN  [b \in Buckets |-> RoundToHalf(Clamp(deducted[b]))]

_calculate_scores(fs) ==
  LET base     == [b \in Buckets |-> 40]
      deducted == DeductAll(base, fs, 1)
  IN  [b \in Buckets |-> RoundToHalf(Clamp(deducted[b]))]

(***************************************************************************)
(* _calculate_overall_score                                                *)
(*                                                                         *)
(* The weighted sum is computed in IEEE-754 binary64, and 0.2 and 0.15 are *)
(* not binary fractions, so a sum that is a tie in exact arithmetic is     *)
(* usually not a tie in the float. A float x is held exactly as the pair   *)
(* [m, d] with                                                             *)
(*        x = m/40 + d/(5 * 2^56),                                         *)
(* m the decimal value in fortieths and d the float's deviation from it.   *)
(* The literals are 0.25 = 10/40, 0.2 = 8/40 + 4/(5*2^56) and              *)
(* 0.15 = 6/40 - 2/(5*2^56); a score is h/2.                               *)
(***************************************************************************)
RECURSIVE Pow2(_)
Pow2(k) == IF k = 0 THEN 1 ELSE 2 * Pow2(k - 1)

\* 2^k mod n for n in {5, 10} and k >= 1: the residues repeat with period 4.
Pow2Mod(k, n) == Pow2(4 + (k % 4)) % n

\* The largest s with m/40 >= 2^(s-4): the float's ulp is 5*2^s units of d.
RECURSIVE UlpShift(_, _)
UlpShift(m, s) == IF 2 * m >= 5 * Pow2(s + 1) THEN UlpShift(m, s + 1) ELSE s

\* Round the exact value [m, d] to the nearest binary64 (ties to even).
RoundToDouble(m, d) ==
  IF m = 0 /\ d = 0 THEN [m |-> 0, d |-> 0]
  ELSE
    LET s0   == UlpShift(m, 0)
        s    == IF 2 * m = 5 * Pow2(s0) /\ d < 0 THEN s0 - 1 ELSE s0
        ulp  == 5 * Pow2(s)
        base == Pow2(s) * (((m % 5) * Pow2Mod(53 - s, 5)) % 5)
        rem  == (base + d) % ulp
        down == [m |-> m, d |-> d - rem]
        up   == [m |-> m, d |-> d + ulp - rem]
        odd  == ((((m % 10) * Pow2Mod(53 - s, 10)) + ((d - rem) \div Pow2(s))) % 10) \div 5
    IN  IF 2 * rem < ulp THEN down
        ELSE IF 2 * rem > ulp THEN up
        ELSE IF odd = 0 THEN down ELSE up

FAdd(x, y) == RoundToDouble(x.m + y.m, x.d + y.d)

\* weight literal as [m, d] per half point of score.
W025 == [m |-> 5, d |-> 0]
W020 == [m |-> 4, d |-> 2]
W015 == [m |-> 3, d |-> -1]

MutWeightsEqual ==
  [authentication |-> W020, data_protection |-> W020, input_validation |-> W020,
   prompt_security |-> W020, infrastructure |-> W020]

weights ==
  [authentication |-> W025, data_protection |-> W020, input_validation |-> W020,
   prompt_security |-> W020, infrastructure |-> W015]

\* Iteration order of the weights dict.
WeightOrder == <<"authentication", "data_protection", "input_validation",
                 "prompt_security", "infrastructure">>

\* self.category_scores[cat] * weights[cat]
Term(cs, cat) == RoundToDouble(cs[cat] * weights[cat].m, cs[cat] * weights[cat].d)

RECURSIVE SumTerms(_, _, _)
SumTerms(acc, cs, i) ==
  IF i > Len(WeightOrder) THEN acc
  ELSE SumTerms(FAdd(acc, Term(cs, WeightOrder[i])), cs, i + 1)

\* Python round() of the float [m, d] given in twentieths (after * 2).
RoundDouble(m, d) ==
  LET q == m \div 40
      f == m % 40
  IN  IF f < 20 \/ (f = 20 /\ d < 0) THEN q
      ELSE IF f > 20 \/ d > 0 THEN q + 1
      ELSE IF q % 2 = 0 THEN q ELSE q + 1

\* round(overall_score * 2) / 2, as a doubled score.
_calculate_overall_score(cs) ==
  LET overall_score == SumTerms([m |-> 0, d |-> 0], cs, 1)
  IN  RoundDouble(2 * overall_score.m, 2 * overall_score.d)

\* The weighted sum in exact arithmetic, in units of 1/40 point:
\* 0.25 a + 0.2 (d + i + p) + 0.15 f with doubled scores.
ExactWeightedSum40(cs) ==
  5 * cs["authentication"] + 4 * cs["data_protection"] + 4 * cs["input_validation"]
    + 4 * cs["prompt_security"] + 3 * cs["infrastructure"]

(***************************************************************************)
(* The repository tree.                                                    *)
(*                                                                         *)
(* repo is the list of files in os.walk order. A file is                   *)
(*   [name, readable, decodable, content]                                  *)
(* where content is the set of source lines it holds (a line is written    *)
(* as its own text, "\n" inside it for a statement of several lines).      *)
(* PatternHits gives, for each regular expression of the scanner, the      *)
(* lines in which re.search finds it.                                      *)
(***************************************************************************)
\* BEGIN pattern table
\* Lines of Python source, in the order they stand in a file.
PyLines ==
  <<"def authenticate(request):",
    "schema.validate(payload)",
    "ctx = ssl.create_default_context()",
    "import jwt",
    "import rbac",
    "cipher = Fernet(k)",
    "limiter = Limiter(app)",
    "logger.debug(token)",
    "except:",
    "except ValueError:",
    "except Exception as e:\n    return str(e)",
    "prompt = f'Q: {user_input}'",
    "system_prompt = f'{user}'",
    "db.save(record)",
    "tenant = find(tenant_name)",
    "email = row.email",
    "ctx.options = ssl.PROTOCOL_SSLv3",
    "api_key = 'abc123'",
    "import openai",
    "return http_basic_auth(request)",
    "@app.get('/items')\ndef list_items(q):\n    return q",
    "@app.post('/items')\ndef add_item(item: Item):\n    check(item)\n    return item">>

\* Lines of a configuration file.
ConfigLines ==
  <<"api_key = 'abc123'",
    "password = 'hunter2'",
    "token = os.getenv('TOKEN')",
    "debug = true">>

\* Lines of a setup.py that call setup().
SetupLines ==
  <<"setup(install_requires=['flask==2.0.0', 'requests'])",
    "setup(install_requires=['flask==2.2.0'])">>

\* Tables of a pyproject.toml.
PyprojectLines ==
  <<"[project]\ndependencies = [\"flask==2.0.0\"]",
    "[project]\ndependencies = [\"requests\"]">>

\* The lines in which re.search(pattern, line) succeeds; "(?i)" marks a
\* search with re.IGNORECASE.
PatternHits(pattern) ==
  CASE pattern = "auth|authenticate|security" ->
         {"def authenticate(request):",
          "return http_basic_auth(request)"}
    [] pattern = "validate|schema|check" ->
         {"schema.validate(payload)",
          "@app.post('/items')\ndef add_item(item: Item):\n    check(item)\n    return item"}
    [] pattern = "https|ssl|tls" ->
         {"ctx = ssl.create_default_context()",
          "ctx.options = ssl.PROTOCOL_SSLv3"}
    [] pattern = "rate_limit|throttle|limiter" ->
         {"limiter = Limiter(app)"}
    [] pattern = "oauth" ->
         {}
    [] pattern = "jwt" ->
         {"import jwt"}
    [] pattern = "token.*verify" ->
         {}
    [] pattern = "password.*hash" ->
         {}
    [] pattern = "role.*based" ->
         {}
    [] pattern = "rbac" ->
         {"import rbac"}
    [] pattern = "permission.*check" ->
         {}
    [] pattern = "access.*control" ->
         {}
    [] pattern = "encrypt.*data" ->
         {}
    [] pattern = "data.*encrypt" ->
         {}
    [] pattern = "cipher" ->
         {"cipher = Fernet(k)"}
    [] pattern = "aes" ->
         {}
    [] pattern = "cryptography" ->
         {}
    [] pattern = "try|except|error" ->
         {"except:",
          "except ValueError:",
          "except Exception as e:\n    return str(e)"}
    [] pattern = "log\\.|logger|logging" ->
         {"logger.debug(token)"}
    [] pattern = "@app\\.(?:get|post|put|delete)" ->
         {"@app.get('/items')\ndef list_items(q):\n    return q",
          "@app.post('/items')\ndef add_item(item: Item):\n    check(item)\n    return item"}
    [] pattern = "api_key|token|auth|authenticate" ->
         {"def authenticate(request):",
          "logger.debug(token)",
          "api_key = 'abc123'",
          "return http_basic_auth(request)",
          "token = os.getenv('TOKEN')"}
    [] pattern = "(?i)basic_auth|http_basic_auth" ->
         {"return http_basic_auth(request)"}
    [] pattern = "auth|rbac|role|permission|access" ->
         {"def authenticate(request):",
          "import rbac",
          "return http_basic_auth(request)"}
    [] pattern = "(?i)role|permission|rbac" ->
         {"import rbac"}
    [] pattern = "(?i)authorize|permission|can_|allowed_to|has_permission" ->
         {}
    [] pattern = "tenant|organization|customer|client" ->
         {"tenant = find(tenant_name)"}
    [] pattern = "query|filter|where|find" ->
         {"tenant = find(tenant_name)"}
    [] pattern = "tenant_id|org_id|customer_id|client_id" ->
         {}
    [] pattern = "save|store|database|db|persist" ->
         {"db.save(record)"}
    [] pattern = "(?i)encrypt|cipher|aes|cryptography" ->
         {"cipher = Fernet(k)"}
    [] pattern = "(?i)https|ssl|tls|ssl_context" ->
         {"ctx = ssl.create_default_context()",
          "ctx.options = ssl.PROTOCOL_SSLv3"}
    [] pattern = "ssl_context|SSL|TLS" ->
         {"ctx.options = ssl.PROTOCOL_SSLv3"}
    [] pattern = "SSLv2|SSLv3|TLSv1\\.0|TLSv1\\.1" ->
         {"ctx.options = ssl.PROTOCOL_SSLv3"}
    [] pattern = "(?i)email|phone|address|name|ssn|social|credit|card" ->
         {"tenant = find(tenant_name)",
          "email = row.email"}
    [] pattern = "(?i)mask|redact|encrypt|hash" ->
         {}
    [] pattern = "(?i)password|token|key|secret" ->
         {"logger.debug(token)",
          "api_key = 'abc123'",
          "password = 'hunter2'",
          "token = os.getenv('TOKEN')"}
    [] pattern = "validate|schema|pydantic|BaseModel" ->
         {"schema.validate(payload)"}
    [] pattern = "except.*?:\\s*return\\s+.*?str\\(e\\)" ->
         {"except Exception as e:\n    return str(e)"}
    [] pattern = "except\\s*:" ->
         {"except:"}
    [] pattern = "except\\s+\\w+" ->
         {"except ValueError:",
          "except Exception as e:\n    return str(e)"}
    [] pattern = "try|except" ->
         {"except:",
          "except ValueError:",
          "except Exception as e:\n    return str(e)"}
    [] pattern = "model|llm|gpt|openai|anthropic|claude|prompt" ->
         {"prompt = f'Q: {user_input}'",
          "system_prompt = f'{user}'",
          "import openai"}
    [] pattern = "prompt\\s*=\\s*f['\\\"].*\\{.*\\}.*['\\\"]" ->
         {"prompt = f'Q: {user_input}'",
          "system_prompt = f'{user}'"}
    [] pattern = "prompt\\s*\\+=\\s*user_input" ->
         {}
    [] pattern = "system_prompt\\s*=\\s*.*user" ->
         {"system_prompt = f'{user}'"}
    [] pattern = "prompt.*user|user.*prompt" ->
         {"prompt = f'Q: {user_input}'",
          "system_prompt = f'{user}'"}
    [] pattern = "sanitize|clean|validate|filter" ->
         {"schema.validate(payload)"}
    [] pattern = "prompt" ->
         {"prompt = f'Q: {user_input}'",
          "system_prompt = f'{user}'"}
    [] pattern = "system|user|assistant|role" ->
         {"prompt = f'Q: {user_input}'",
          "system_prompt = f'{user}'"}
    [] pattern = "content|filter|moderate|inappropriate|harmful" ->
         {}
    [] pattern = "model|llm|gpt|openai|anthropic|claude" ->
         {"import openai"}
    [] pattern = "user_id|tenant|client" ->
         {"tenant = find(tenant_name)"}
    [] pattern = "(?i)log.*\\(.*(?:password|token|key|secret)" ->
         {"logger.debug(token)"}
    [] pattern = "log\\.debug|logger\\.debug" ->
         {"logger.debug(token)"}
    [] pattern = "if\\s+debug|DEBUG|development" ->
         {}
    [] pattern = "api[_-]?key\\s*=\\s*['\\\"][\\w\\-]+['\\\"]" ->
         {"api_key = 'abc123'"}
    [] pattern = "password\\s*=\\s*['\\\"][\\w\\-]+['\\\"]" ->
         {"password = 'hunter2'"}
    [] pattern = "secret\\s*=\\s*['\\\"][\\w\\-]+['\\\"]" ->
         {}
    [] pattern = "token\\s*=\\s*['\\\"][\\w\\-]+['\\\"]" ->
         {}
    [] pattern = "auth\\s*=\\s*['\\\"][\\w\\-]+['\\\"]" ->
         {}
    [] pattern = "(?i)api_key|token|secret|password" ->
         {"logger.debug(token)",
          "api_key = 'abc123'",
          "password = 'hunter2'",
          "token = os.getenv('TOKEN')"}
    [] pattern = "os\\.environ|getenv" ->
         {"token = os.getenv('TOKEN')"}

\* The route handlers a line declares: the name re.findall captures,
\* whether its parameters lack a type hint, and whether its body lacks a
\* validation word.
RouteHandlers(line) ==
  CASE line = "@app.get('/items')\ndef list_items(q):\n    return q" ->
         <<[name |-> "list_items", untyped |-> TRUE, unvalidated |-> TRUE,
            hint_description |-> "Function 'list_items' lacks type hints which can help with validation",
            validation_description |-> "API handler 'list_items' may lack input validation"]>>
    [] line = "@app.post('/items')\ndef add_item(item: Item):\n    check(item)\n    return item" ->
         <<[name |-> "add_item", untyped |-> FALSE, unvalidated |-> FALSE,
            hint_description |-> "Function 'add_item' lacks type hints which can help with validation",
            validation_description |-> "API handler 'add_item' may lack input validation"]>>
    [] OTHER -> <<>>
\* END pattern table

\* re.search(pattern, content) is not None
Search(pattern, content) == content \cap PatternHits(pattern) # {}

\* File names by the tests the code applies to them.
PyNames == {"app.py", "main.py", "server.py", "settings.py", "config.py",
            "setup.py", "utils.py"}

\* file.endswith('.py')
EndsWithPy(name) == name \in PyNames

\* The files _find_files_with_pattern appends: .py files that open, decode
\* and match.
MatchesPattern(file, pattern) ==
  /\ EndsWithPy(file.name)
  /\ file.readable
  /\ file.decodable
  /\ Search(pattern, file.content)

RECURSIVE FilterFiles(_, _, _)
FilterFiles(r, pattern, i) ==
  IF i > Len(r) THEN <<>>
  ELSE (IF MatchesPattern(r[i], pattern) THEN <<r[i]>> ELSE <<>>)
         \o FilterFiles(r, pattern, i + 1)

\* The result list holds the files themselves; a file's path is its name.
_find_files_with_pattern(r, pattern) == FilterFiles(r, pattern, 1)

\* any(list of paths): a path is a non-empty string.
any(paths) == paths # <<>>

(***************************************************************************)
(* _determine_certification_level and its predicates                       *)
(***************************************************************************)
CountSeverity(fs, sev) == Cardinality({i \in 1..Len(fs) : fs[i].severity = sev})

MutHardcodedByDescription(fs) ==
  \E i \in 1..Len(fs) : MentionsHardcoded(fs[i].description)

_has_hardcoded_secrets(fs) ==
  \E i \in 1..Len(fs) :
     /\ fs[i].category = "Secrets Management"
     /\ MentionsHardcoded(fs[i].description)

_has_strong_auth(r) ==
  \E pattern \in {"oauth", "jwt", "token.*verify", "password.*hash"} :
     any(_find_files_with_pattern(r, pattern))

\* "error handling" in category.lower()
ContainsErrorHandling(lowered) == lowered = "error handling"

ErrorFindings(fs) ==
  {i \in 1..Len(fs) : ContainsErrorHandling(Lower(fs[i].category))}

MutErrorHandlingAnyCount(fs) ==
  ~ \E i \in ErrorFindings(fs) : fs[i].severity \in {"CRITICAL", "HIGH"}

_has_proper_error_handling(fs) ==
  /\ Cardinality(ErrorFindings(fs)) <= 2
  /\ ~ \E i \in ErrorFindings(fs) : fs[i].severity \in {"CRITICAL", "HIGH"}

_has_rbac(r) ==
  \E pattern \in {"role.*based", "rbac", "permission.*check", "access.*control"} :
     any(_find_files_with_pattern(r, pattern))

_has_encryption_at_rest(r) ==
  \E pattern \in {"encrypt.*data", "data.*encrypt", "cipher", "aes", "cryptography"} :
     any(_find_files_with_pattern(r, pattern))

MutLadderNotNested(fs, cs, r) ==
  LET overall_score == _calculate_overall_score(cs)
  IN  IF /\ CountSeverity(fs, "MEDIUM") = 0
         /\ overall_score >= 17
         /\ _has_rbac(r)
         /\ _has_encryption_at_rest(r)
        THEN [level |-> "Gold",
              details |-> "Follows security best practices with no critical/high/medium vulnerabilities"]
      ELSE IF /\ CountSeverity(fs, "HIGH") = 0
              /\ overall_score >= 14
              /\ _has_strong_auth(r)
              /\ _has_proper_error_handling(fs)
        THEN [level |-> "Silver", details |-> "Implements recommended security practices"]
      ELSE IF /\ CountSeverity(fs, "CRITICAL") = 0
              /\ any(_find_files_with_pattern(r, "auth|authenticate|security"))
              /\ any(_find_files_with_pattern(r, "validate|schema|check"))
              /\ any(_find_files_with_pattern(r, "https|ssl|tls"))
              /\ ~ _has_hardcoded_secrets(fs)
        THEN [level |-> "Bronze", details |-> "Meets basic security requirements"]
      ELSE [level |-> "None", details |-> "Does not meet minimum certification requirements"]

MutBronzeIgnoresCritical(fs, cs, r) ==
  LET overall_score == _calculate_overall_score(cs)
  IN  IF /\ any(_find_files_with_pattern(r, "auth|authenticate|security"))
         /\ any(_find_files_with_pattern(r, "validate|schema|check"))
         /\ any(_find_files_with_pattern(r, "https|ssl|tls"))
         /\ ~ _has_hardcoded_secrets(fs)
        THEN IF /\ CountSeverity(fs, "HIGH") = 0
                /\ overall_score >= 14
                /\ _has_strong_auth(r)
                /\ _has_proper_error_handling(fs)
               THEN IF /\ CountSeverity(fs, "MEDIUM") = 0
                       /\ overall_score >= 17
                       /\ _has_rbac(r)
                       /\ _has_encryption_at_rest(r)
                      THEN [level |-> "Gold",
                            details |-> "Follows security best practices with no critical/high/medium vulnerabilities"]
                      ELSE [level |-> "Silver",
                            details |-> "Implements recommended security practices"]
               ELSE [level |-> "Bronze", details |-> "Meets basic security requirements"]
        ELSE [level |-> "None", details |-> "Does not meet minimum certification requirements"]

_determine_certification_level(fs, cs, r) ==
  LET critical_count       == CountSeverity(fs, "CRITICAL")
      high_count           == CountSeverity(fs, "HIGH")
      medium_count         == CountSeverity(fs, "MEDIUM")
      overall_score        == _calculate_overall_score(cs)
      has_auth             == any(_find_files_with_pattern(r, "auth|authenticate|security"))
      has_input_validation == any(_find_files_with_pattern(r, "validate|schema|check"))
      has_https            == any(_find_files_with_pattern(r, "https|ssl|tls"))
  IN  IF /\ critical_count = 0
         /\ has_auth
         /\ has_input_validation
         /\ has_https
         /\ ~ _has_hardcoded_secrets(fs)
        THEN IF /\ high_count = 0
                /\ overall_score >= 14
                /\ _has_strong_auth(r)
                /\ _has_proper_error_handling(fs)
               THEN IF /\ medium_count = 0
                       /\ overall_score >= 17
                       /\ _has_rbac(r)
                       /\ _has_encryption_at_rest(r)
                      THEN [level |-> "Gold",
                            details |-> "Follows security best practices with no critical/high/medium vulnerabilities"]
                      ELSE [level |-> "Silver",
                            details |-> "Implements recommended security practices"]
               ELSE [level |-> "Bronze", details |-> "Meets basic security requirements"]
        ELSE [level |-> "None", details |-> "Does not meet minimum certification requirements"]

(***************************************************************************)
(* The detectors (check_...). Each yields the findings it appends, in     *)
(* order, and whether it raised: open() on an unreadable file outside a    *)
(* try raises out of the detector, with the findings appended so far kept. *)
(***************************************************************************)
RECURSIVE Flatten(_, _)
Flatten(seqs, i) == IF i > Len(seqs) THEN <<>> ELSE seqs[i] \o Flatten(seqs, i + 1)

\* The files of a list that a loop opens before one fails to open.
RECURSIVE OpenedPrefix(_, _)
OpenedPrefix(files, i) ==
  IF i > Len(files) \/ ~ files[i].readable THEN <<>>
  ELSE <<files[i]>> \o OpenedPrefix(files, i + 1)

Unreadable(files) == \E i \in 1..Len(files) : ~ files[i].readable

\* for file_path in files: with open(file_path) as f: try: content = f.read();
\* <body> except UnicodeDecodeError: pass
\* body[i] is what the loop body appends for files[i].
ForEachFile(files, body) ==
  LET opened == OpenedPrefix(files, 1)
  IN  [findings |-> Flatten([i \in 1..Len(opened) |->
                               IF opened[i].decodable THEN body[i] ELSE <<>>], 1),
       raised   |-> Unreadable(files)]

Emitted(fs) == [findings |-> fs, raised |-> FALSE]

\* One detector's findings followed by a loop's.
Then(fs, loop) == [findings |-> fs \o loop.findings, raised |-> loop.raised]

If(cond, fs) == IF cond THEN fs ELSE <<>>

\* for root, _, files in os.walk(...): the files whose name is one of names.
RECURSIVE SelectFiles(_, _, _)
SelectFiles(r, names, i) ==
  IF i > Len(r) THEN <<>>
  ELSE (IF r[i].name \in names THEN <<r[i]>> ELSE <<>>) \o SelectFiles(r, names, i + 1)

\* os.walk(self.repo_path) with the default onerror: a root that is missing
\* or cannot be listed yields no file and no error.
os_walk(path, tree) == IF path = "directory" THEN tree ELSE <<>>

\* _find_python_files: every .py file, readable or not.
_find_python_files(r) == SelectFiles(r, PyNames, 1)

RoutePattern == "@app\\.(?:get|post|put|delete)"

MutAuthPerFileCritical(file) ==
  If(Search(RoutePattern, file.content)
       /\ ~ Search("api_key|token|auth|authenticate", file.content),
     <<Finding("CRITICAL", file.name, "Authentication",
               "MCP endpoint may lack authentication checks")>>)

AuthPerFile(file) ==
  If(Search(RoutePattern, file.content)
       /\ ~ Search("api_key|token|auth|authenticate", file.content),
     <<Finding("MEDIUM", file.name, "Authentication",
               "MCP endpoint may lack authentication checks")>>)
  \o If(Search("(?i)basic_auth|http_basic_auth", file.content),
        <<Finding("MEDIUM", file.name, "Authentication",
                  "Basic HTTP authentication detected, which transmits credentials with base64 encoding only")>>)

check_authentication_mechanisms(r) ==
  LET auth_files == _find_files_with_pattern(r, "auth|authenticate|security")
  IN  Then(If(auth_files = <<>>,
              <<Finding("HIGH", "N/A", "Authentication",
                        "No authentication mechanisms detected for MCP endpoints")>>),
           LET files == _find_python_files(r)
           IN  ForEachFile(files, [i \in 1..Len(files) |-> AuthPerFile(files[i])]))

AuthorizationPerFile(file) ==
  If(Search(RoutePattern, file.content)
       /\ ~ Search("(?i)authorize|permission|can_|allowed_to|has_permission", file.content),
     <<Finding("MEDIUM", file.name, "Authorization",
               "Endpoint may lack authorization checks")>>)

check_authorization_controls(r) ==
  LET auth_files == _find_files_with_pattern(r, "auth|rbac|role|permission|access")
      has_rbac   == \E i \in 1..Len(auth_files) :
                       /\ auth_files[i].decodable
                       /\ Search("(?i)role|permission|rbac", auth_files[i].content)
  IN  Then(If(~ has_rbac /\ auth_files # <<>>,
              <<Finding("MEDIUM", auth_files[1].name, "Authorization",
                        "No role-based access control detected")>>),
           LET files == _find_files_with_pattern(r, RoutePattern)
           IN  ForEachFile(files, [i \in 1..Len(files) |-> AuthorizationPerFile(files[i])]))

TenancyPerFile(file) ==
  If(Search("query|filter|where|find", file.content)
       /\ ~ Search("tenant_id|org_id|customer_id|client_id", file.content),
     <<Finding("HIGH", file.name, "Multi-tenancy",
               "Multi-tenant system may lack proper tenant isolation in queries")>>)

check_multi_tenancy(r) ==
  LET tenant_files == _find_files_with_pattern(r, "tenant|organization|customer|client")
  IN  ForEachFile(tenant_files, [i \in 1..Len(tenant_files) |-> TenancyPerFile(tenant_files[i])])

check_data_at_rest(r) ==
  LET storage_files  == _find_files_with_pattern(r, "save|store|database|db|persist")
      has_encryption == \E i \in 1..Len(storage_files) :
                           /\ storage_files[i].decodable
                           /\ Search("(?i)encrypt|cipher|aes|cryptography",
                                     storage_files[i].content)
  IN  Emitted(If(storage_files # <<>> /\ ~ has_encryption,
                 <<Finding("MEDIUM", storage_files[1].name, "Data Protection",
                           "No encryption detected for data at rest")>>))

TransitNames == {"app.py", "main.py", "server.py", "settings.py", "config.py"}


HasTls(file) ==
  file.readable /\ file.decodable
    /\ Search("(?i)https|ssl|tls|ssl_context", file.content)

InsecureTlsPerFile(file) ==
  If(Search("ssl_context|SSL|TLS", file.content)
       /\ Search("SSLv2|SSLv3|TLSv1\\.0|TLSv1\\.1", file.content),
     <<Finding("HIGH", file.name, "Data Protection",
               "Insecure SSL/TLS protocol versions may be allowed")>>)

\* The first loop stops at the first file with a TLS word; it raises only
\* if an unreadable file comes before that one.
check_data_in_transit(r) ==
  LET config_files == SelectFiles(r, TransitNames, 1)
      opened       == OpenedPrefix(config_files, 1)
      has_https    == \E i \in 1..Len(opened) : HasTls(opened[i])
  IN  IF ~ has_https /\ Unreadable(config_files)
        THEN [findings |-> <<>>, raised |-> TRUE]
        ELSE Then(If(config_files # <<>> /\ ~ has_https,
                     <<Finding("HIGH", config_files[1].name, "Data Protection",
                               "No HTTPS/TLS implementation detected for data in transit")>>),
                  ForEachFile(config_files, [i \in 1..Len(config_files) |-> InsecureTlsPerFile(config_files[i])]))

SensitivePerFile(file) ==
  If(Search("(?i)email|phone|address|name|ssn|social|credit|card", file.content)
       /\ ~ Search("(?i)mask|redact|encrypt|hash", file.content),
     <<Finding("MEDIUM", file.name, "Data Protection",
               "Potential PII data without proper protection")>>)
  \o If(Search("log\\.|logger|logging", file.content)
          /\ Search("(?i)password|token|key|secret", file.content),
        <<Finding("MEDIUM", file.name, "Data Protection",
                  "Sensitive data may be logged")>>)

check_sensitive_data_handling(r) ==
  LET files == _find_python_files(r)
  IN  ForEachFile(files, [i \in 1..Len(files) |-> SensitivePerFile(files[i])])

\* The lines of a content in file order.
RECURSIVE LinesInOrder(_, _, _)
LinesInOrder(order, content, i) ==
  IF i > Len(order) THEN <<>>
  ELSE (IF order[i] \in content THEN <<order[i]>> ELSE <<>>)
         \o LinesInOrder(order, content, i + 1)

HandlerFindings(file, h) ==
  If(h.untyped,
     <<Finding("LOW", file.name, "Input Validation", h.hint_description)>>)
  \o If(h.unvalidated,
        <<Finding("MEDIUM", file.name, "Input Validation", h.validation_description)>>)

ValidationPerFile(file) ==
  LET lines    == LinesInOrder(PyLines, file.content, 1)
      handlers == Flatten([i \in 1..Len(lines) |-> RouteHandlers(lines[i])], 1)
  IN  Flatten([i \in 1..Len(handlers) |-> HandlerFindings(file, handlers[i])], 1)

check_request_validation(r) ==
  LET files == _find_files_with_pattern(r, RoutePattern)
  IN  ForEachFile(files, [i \in 1..Len(files) |-> ValidationPerFile(files[i])])

ErrorHandlingPerFile(file) ==
  If(Search("except.*?:\\s*return\\s+.*?str\\(e\\)", file.content),
     <<Finding("MEDIUM", file.name, "Error Handling",
               "Error handling may leak sensitive information through exception messages")>>)
  \o If(Search("except\\s*:", file.content) /\ ~ Search("except\\s+\\w+", file.content),
        <<Finding("LOW", file.name, "Error Handling",
                  "Overly broad exception handling (bare except clause)")>>)
  \o If(Search(RoutePattern, file.content) /\ ~ Search("try|except", file.content),
        <<Finding("LOW", file.name, "Error Handling",
                  "API endpoint lacks error handling")>>)

check_error_handling(r) ==
  LET files == _find_python_files(r)
  IN  ForEachFile(files, [i \in 1..Len(files) |-> ErrorHandlingPerFile(files[i])])

\* self.vuln_patterns["prompt_injection"], in list order.
PromptInjectionPatterns ==
  <<"prompt\\s*=\\s*f['\\\"].*\\{.*\\}.*['\\\"]",
    "prompt\\s*\\+=\\s*user_input",
    "system_prompt\\s*=\\s*.*user">>

\* self.vuln_patterns["keys_and_secrets"], in list order.
KeysAndSecretsPatterns ==
  <<"api[_-]?key\\s*=\\s*['\\\"][\\w\\-]+['\\\"]",
    "password\\s*=\\s*['\\\"][\\w\\-]+['\\\"]",
    "secret\\s*=\\s*['\\\"][\\w\\-]+['\\\"]",
    "token\\s*=\\s*['\\\"][\\w\\-]+['\\\"]",
    "auth\\s*=\\s*['\\\"][\\w\\-]+['\\\"]">>

\* for pattern in patterns: if re.search(pattern, content): append(finding)
OnePerMatchingPattern(patterns, content, finding) ==
  Flatten([i \in 1..Len(patterns) |-> If(Search(patterns[i], content), <<finding>>)], 1)

PromptPerFile(file) ==
  OnePerMatchingPattern(PromptInjectionPatterns, file.content,
     Finding("HIGH", file.name, "Prompt Security",
             "Potential prompt injection vulnerability with unsanitized user input"))
  \o If(Search("prompt.*user|user.*prompt", file.content)
          /\ ~ Search("sanitize|clean|validate|filter", file.content),
        <<Finding("MEDIUM", file.name, "Prompt Security",
                  "User input may be used in prompts without sanitization")>>)
  \o If(Search("prompt", file.content)
          /\ ~ Search("system|user|assistant|role", file.content),
        <<Finding("LOW", file.name, "Prompt Security",
                  "Prompts may not use clear role separation")>>)

check_prompt_injection_safeguards(r) ==
  LET model_files ==
        _find_files_with_pattern(r, "model|llm|gpt|openai|anthropic|claude|prompt")
  IN  IF model_files # <<>>
        THEN ForEachFile(model_files, [i \in 1..Len(model_files) |-> PromptPerFile(model_files[i])])
        ELSE Emitted(<<Finding("INFO", "N/A", "Prompt Security",
                               "No prompt handling code detected")>>)

check_content_filtering(r) ==
  LET content_files ==
        _find_files_with_pattern(r, "content|filter|moderate|inappropriate|harmful")
  IN  Emitted(If(content_files = <<>>
                   /\ any(_find_files_with_pattern(r, "model|llm|gpt|openai|anthropic|claude")),
                 <<Finding("MEDIUM", "N/A", "Content Security",
                           "No content filtering mechanisms detected for LLM interactions")>>))

RateLimitPerFile(file) ==
  If(~ Search("user_id|tenant|client", file.content),
     <<Finding("LOW", file.name, "Rate Limiting",
               "Rate limiting may not be user-specific")>>)

check_rate_limiting(r) ==
  LET rate_limit_files == _find_files_with_pattern(r, "rate_limit|throttle|limiter")
  IN  IF rate_limit_files = <<>>
        THEN Emitted(<<Finding("MEDIUM", "N/A", "Rate Limiting",
                               "No rate limiting mechanisms detected")>>)
        ELSE ForEachFile(rate_limit_files, [i \in 1..Len(rate_limit_files) |-> RateLimitPerFile(rate_limit_files[i])])

LoggingPerFile(file) ==
  If(Search("(?i)log.*\\(.*(?:password|token|key|secret)", file.content),
     <<Finding("HIGH", file.name, "Logging", "Sensitive data may be logged")>>)
  \o If(Search("log\\.debug|logger\\.debug", file.content)
          /\ ~ Search("if\\s+debug|DEBUG|development", file.content),
        <<Finding("LOW", file.name, "Logging",
                  "Debug logging may be enabled in production")>>)

check_logging_security(r) ==
  LET log_files == _find_files_with_pattern(r, "log\\.|logger|logging")
  IN  IF log_files # <<>>
        THEN ForEachFile(log_files, [i \in 1..Len(log_files) |-> LoggingPerFile(log_files[i])])
        ELSE Emitted(<<Finding("LOW", "N/A", "Logging",
                               "No logging mechanisms detected")>>)

(***************************************************************************)
(* check_dependency_security and _extract_dependencies                     *)
(***************************************************************************)
ManifestNames == {"requirements.txt", "setup.py", "pyproject.toml"}


\* Lines of a requirements.txt, in file order.
RequirementLines ==
  <<"flask==2.0.0", "flask==2.2.0", "Django==3.1.0", "requests>=2.31.0",
    "requests", "flask==latest", "# pinned by hand">>

NoVersion == "None"

\* line.strip(), the '#' test and re.split(r'==|>=|<=|>|<|~=', line):
\* the package and the version of a line, <<>> for a comment.
ParseRequirement(line) ==
  CASE line = "flask==2.0.0"     -> <<[package |-> "flask", version |-> "2.0.0"]>>
    [] line = "flask==2.2.0"     -> <<[package |-> "flask", version |-> "2.2.0"]>>
    [] line = "Django==3.1.0"    -> <<[package |-> "Django", version |-> "3.1.0"]>>
    [] line = "requests>=2.31.0" -> <<[package |-> "requests", version |-> "2.31.0"]>>
    [] line = "requests"         -> <<[package |-> "requests", version |-> NoVersion]>>
    [] line = "flask==latest"    -> <<[package |-> "flask", version |-> "latest"]>>
    [] OTHER                     -> <<>>

\* dependencies[package] = version: a dict keeps the position of the first
\* assignment of a key and the value of the last.
RECURSIVE DictAssign(_, _, _)
DictAssign(dict, entry, i) ==
  IF i > Len(dict) THEN dict \o <<entry>>
  ELSE IF dict[i].package = entry.package THEN [dict EXCEPT ![i] = entry]
  ELSE DictAssign(dict, entry, i + 1)

RECURSIVE DictOf(_, _, _)
DictOf(entries, dict, i) ==
  IF i > Len(entries) THEN dict
  ELSE DictOf(entries, DictAssign(dict, entries[i], 1), i + 1)

\* re.search(r'install_requires\s*=\s*\[(.*?)\]') and the quoted items of
\* its group, split like a requirements line.
SetupRequires(line) ==
  CASE line = "setup(install_requires=['flask==2.0.0', 'requests'])" ->
         <<[package |-> "flask", version |-> "2.0.0"],
           [package |-> "requests", version |-> NoVersion]>>
    [] line = "setup(install_requires=['flask==2.2.0'])" ->
         <<[package |-> "flask", version |-> "2.2.0"]>>
    [] OTHER -> <<>>

\* The pyproject.toml branch on one [project] table. With tomli,
\* deps.update() of the list of requirement strings raises ValueError;
\* without it the import fails; both end in the regex fallback, whose item
\* pattern ['"]([\w-]+)['"] takes a quoted bare name and nothing from a
\* quoted "name==version".
PyprojectDependencies(line) ==
  CASE line = "[project]\ndependencies = [\"flask==2.0.0\"]" -> <<>>
    [] line = "[project]\ndependencies = [\"requests\"]" ->
         <<[package |-> "requests", version |-> NoVersion]>>
    [] OTHER -> <<>>

\* re.search takes the first install_requires list, or the first
\* dependencies list, of the file.
FirstOf(lines) == IF lines = <<>> THEN <<>> ELSE <<lines[1]>>

MutParseErrorSilent(file) == <<>>

\* except Exception as e: the finding of lines 978-985; its text ends with
\* the exception's message, left out here.
ParseErrorFindings(file) ==
  <<Finding("INFO", file.name, "Dependencies", "Error parsing dependencies: ")>>

\* The dict and the finding of _extract_dependencies. open() and read() are
\* inside the try, and nothing after them raises.
_extract_dependencies(file) ==
  IF ~ file.readable \/ ~ file.decodable
    THEN [dependencies |-> <<>>, findings |-> ParseErrorFindings(file)]
  ELSE IF file.name = "requirements.txt"
    THEN LET lines   == LinesInOrder(RequirementLines, file.content, 1)
             entries == Flatten([i \in 1..Len(lines) |-> ParseRequirement(lines[i])], 1)
         IN  [dependencies |-> DictOf(entries, <<>>, 1), findings |-> <<>>]
  ELSE IF file.name = "setup.py"
    THEN LET lines   == FirstOf(LinesInOrder(SetupLines, file.content, 1))
             entries == Flatten([i \in 1..Len(lines) |-> SetupRequires(lines[i])], 1)
         IN  [dependencies |-> DictOf(entries, <<>>, 1), findings |-> <<>>]
  ELSE IF file.name = "pyproject.toml"
    THEN LET lines   == FirstOf(LinesInOrder(PyprojectLines, file.content, 1))
             entries == Flatten([i \in 1..Len(lines) |-> PyprojectDependencies(lines[i])], 1)
         IN  [dependencies |-> DictOf(entries, <<>>, 1), findings |-> <<>>]
  ELSE [dependencies |-> <<>>, findings |-> <<>>]

KnownVulnerablePackages == {"flask", "django", "fastapi", "requests", "pyyaml",
                            "cryptography", "openai", "anthropic", "langchain"}

\* self.known_vulnerable_deps
known_vulnerable_deps(package) ==
  CASE package = "flask"        -> "2.2.0"
    [] package = "django"       -> "3.2.0"
    [] package = "fastapi"      -> "0.80.0"
    [] package = "requests"     -> "2.25.0"
    [] package = "pyyaml"       -> "5.4"
    [] package = "cryptography" -> "3.3.2"
    [] package = "openai"       -> "0.27.0"
    [] package = "anthropic"    -> "0.3.0"
    [] package = "langchain"    -> "0.0.200"

\* dep_name.lower()
LowerName(package) == IF package = "Django" THEN "django" ELSE package

\* packaging.version.parse: the release tuple, <<>> for a string that is
\* not a PEP 440 version.
VersionOf(text) ==
  CASE text = "2.0.0"   -> <<2, 0, 0>>
    [] text = "2.2.0"   -> <<2, 2, 0>>
    [] text = "3.1.0"   -> <<3, 1, 0>>
    [] text = "3.2.0"   -> <<3, 2, 0>>
    [] text = "2.31.0"  -> <<2, 31, 0>>
    [] text = "2.25.0"  -> <<2, 25, 0>>
    [] text = "0.80.0"  -> <<0, 80, 0>>
    [] text = "5.4"     -> <<5, 4, 0>>
    [] text = "3.3.2"   -> <<3, 3, 2>>
    [] text = "0.27.0"  -> <<0, 27, 0>>
    [] text = "0.3.0"   -> <<0, 3, 0>>
    [] text = "0.0.200" -> <<0, 0, 200>>
    [] OTHER            -> <<>>

VersionLess(a, b) ==
  \/ a[1] < b[1]
  \/ a[1] = b[1] /\ a[2] < b[2]
  \/ a[1] = b[1] /\ a[2] = b[2] /\ a[3] < b[3]

Unparsable(dep) ==
  /\ LowerName(dep.package) \in KnownVulnerablePackages
  /\ dep.version # NoVersion
  /\ VersionOf(dep.version) = <<>>

\* f"Vulnerable dependency: {dep_name}=={dep_version} (should be >= {vulnerable_ver})"
VulnerableDescription(dep) ==
  CASE dep.package = "flask" /\ dep.version = "2.0.0" ->
         "Vulnerable dependency: flask==2.0.0 (should be >= 2.2.0)"
    [] dep.package = "flask" /\ dep.version = "latest" ->
         "Vulnerable dependency: flask==latest (should be >= 2.2.0)"
    [] dep.package = "Django" /\ dep.version = "3.1.0" ->
         "Vulnerable dependency: Django==3.1.0 (should be >= 3.2.0)"

\* f"Dependency {dep_name} has no version specified, which may lead to using vulnerable versions"
UnpinnedDescription(dep) ==
  CASE dep.package = "requests" ->
         "Dependency requests has no version specified, which may lead to using vulnerable versions"

\* The loop body over one dependency. legacy tells what version.parse does
\* with a string that is not a version: the packaging releases that still
\* have LegacyVersion order it below every version, the later ones raise
\* InvalidVersion.
DependencyFindings(file, dep, legacy) ==
  If(/\ LowerName(dep.package) \in KnownVulnerablePackages
     /\ dep.version # NoVersion
     /\ IF VersionOf(dep.version) = <<>> THEN legacy
        ELSE VersionLess(VersionOf(dep.version),
                         VersionOf(known_vulnerable_deps(LowerName(dep.package)))),
     <<Finding("HIGH", file.name, "Dependencies", VulnerableDescription(dep))>>)
  \o If(dep.version = NoVersion,
        <<Finding("MEDIUM", file.name, "Dependencies", UnpinnedDescription(dep))>>)

\* The dependencies of one manifest up to the one on which version.parse
\* raises.
RECURSIVE DepsBeforeRaise(_, _, _)
DepsBeforeRaise(deps, legacy, i) ==
  IF i > Len(deps) \/ (~ legacy /\ Unparsable(deps[i])) THEN <<>>
  ELSE <<deps[i]>> \o DepsBeforeRaise(deps, legacy, i + 1)

ManifestRaises(file, legacy) ==
  LET deps == _extract_dependencies(file).dependencies
  IN  ~ legacy /\ \E i \in 1..Len(deps) : Unparsable(deps[i])

ManifestFindings(file, legacy) ==
  LET extracted == _extract_dependencies(file)
      deps      == DepsBeforeRaise(extracted.dependencies, legacy, 1)
  IN  extracted.findings
        \o Flatten([i \in 1..Len(deps) |-> DependencyFindings(file, deps[i], legacy)], 1)

RECURSIVE ManifestsBeforeRaise(_, _, _)
ManifestsBeforeRaise(files, legacy, i) ==
  IF i > Len(files) THEN <<>>
  ELSE IF ManifestRaises(files[i], legacy) THEN <<files[i]>>
  ELSE <<files[i]>> \o ManifestsBeforeRaise(files, legacy, i + 1)

check_dependency_security(r, legacy) ==
  LET req_file_paths == SelectFiles(r, ManifestNames, 1)
      visited        == ManifestsBeforeRaise(req_file_paths, legacy, 1)
  IN  IF req_file_paths = <<>>
        THEN Emitted(<<Finding("LOW", "N/A", "Dependencies",
                               "No requirements.txt, setup.py or pyproject.toml found for dependency analysis")>>)
        ELSE [findings |-> Flatten([i \in 1..Len(visited) |->
                                      ManifestFindings(visited[i], legacy)], 1),
              raised   |-> \E i \in 1..Len(req_file_paths) :
                              ManifestRaises(req_file_paths[i], legacy)]

(***************************************************************************)
(* check_configuration_security                                            *)
(***************************************************************************)
\* Names with a configuration suffix, and config.py and settings.py.
ConfigNames == {"config.json", "app.yaml", "deploy.yml", "settings.toml",
                "pyproject.toml", "tox.ini", "setup.cfg", "config.py", "settings.py"}


MutSecretsManagementCategory(file) ==
  OnePerMatchingPattern(KeysAndSecretsPatterns, file.content,
     Finding("HIGH", file.name, "Secrets Management",
             "Hardcoded sensitive data in configuration file"))

HardcodedSecretFindings(file) ==
  OnePerMatchingPattern(KeysAndSecretsPatterns, file.content,
     Finding("HIGH", file.name, "Configuration",
             "Hardcoded sensitive data in configuration file"))

MutConfigurationEnvOnly(file) ==
  If(Search("(?i)api_key|token|secret|password", file.content)
       /\ ~ Search("os\\.environ|getenv", file.content),
     <<Finding("MEDIUM", file.name, "Configuration",
               "Sensitive configuration may not use environment variables")>>)

ConfigurationPerFile(file) ==
  HardcodedSecretFindings(file)
  \o If(Search("(?i)api_key|token|secret|password", file.content)
          /\ ~ Search("os\\.environ|getenv", file.content),
        <<Finding("MEDIUM", file.name, "Configuration",
                  "Sensitive configuration may not use environment variables")>>)

check_configuration_security(r) ==
  LET files == SelectFiles(r, ConfigNames, 1)
  IN  ForEachFile(files, [i \in 1..Len(files) |-> ConfigurationPerFile(files[i])])

(***************************************************************************)
(* scan(): the detectors in call order                                     *)
(***************************************************************************)
DetectorOrder ==
  <<"check_authentication_mechanisms", "check_authorization_controls",
    "check_multi_tenancy", "check_data_at_rest", "check_data_in_transit",
    "check_sensitive_data_handling", "check_request_validation",
    "check_error_handling", "check_prompt_injection_safeguards",
    "check_content_filtering", "check_rate_limiting", "check_logging_security",
    "check_dependency_security", "check_configuration_security">>

\* The mapping of _extract_security_files before any file is entered.
NoFiles == [path \in {} |-> ""]

\* How many of its appends each detector has made, for the detectors run in
\* any order; the scan in call order does not use it.
NoneRan == [k \in 1..Len(DetectorOrder) |-> 0]

\* The step after detector number k returns.
AfterDetector(k) == IF k < Len(DetectorOrder) THEN DetectorOrder[k + 1] ELSE "code_snippets"

MutAppendsOverwrite(fs, new) == IF new = <<>> THEN fs ELSE new

\* self.findings.append(...), once per finding of new.
Appends(fs, new) == fs \o new

\* One call self.check_...(): its appends reach self.findings, and an
\* exception leaves scan() with no report.
RunDetector(k, result) ==
  /\ pc = DetectorOrder[k]
  /\ findings' = Appends(findings, result.findings)
  /\ pc' = IF result.raised THEN "raised" ELSE AfterDetector(k)
  /\ UNCHANGED <<security_files, ran, profile, exit_code, repo_path, repo, category_scores, certification, report>>

CheckAuthenticationMechanisms == RunDetector(1, check_authentication_mechanisms(os_walk(repo_path, repo)))

CheckAuthorizationControls == RunDetector(2, check_authorization_controls(os_walk(repo_path, repo)))

CheckMultiTenancy == RunDetector(3, check_multi_tenancy(os_walk(repo_path, repo)))

CheckDataAtRest == RunDetector(4, check_data_at_rest(os_walk(repo_path, repo)))

CheckDataInTransit == RunDetector(5, check_data_in_transit(os_walk(repo_path, repo)))

CheckSensitiveDataHandling == RunDetector(6, check_sensitive_data_handling(os_walk(repo_path, repo)))

CheckRequestValidation == RunDetector(7, check_request_validation(os_walk(repo_path, repo)))

CheckErrorHandling == RunDetector(8, check_error_handling(os_walk(repo_path, repo)))

CheckPromptInjectionSafeguards == RunDetector(9, check_prompt_injection_safeguards(os_walk(repo_path, repo)))

CheckContentFiltering == RunDetector(10, check_content_filtering(os_walk(repo_path, repo)))

CheckRateLimiting == RunDetector(11, check_rate_limiting(os_walk(repo_path, repo)))

CheckLoggingSecurity == RunDetector(12, check_logging_security(os_walk(repo_path, repo)))

CheckDependencySecurity ==
  \E legacy \in BOOLEAN : RunDetector(13, check_dependency_security(os_walk(repo_path, repo), legacy))

CheckConfigurationSecurity == RunDetector(14, check_configuration_security(os_walk(repo_path, repo)))

FileNamed(r, name) == r[CHOOSE i \in 1..Len(r) : r[i].name = name]

\* _extract_code_snippet with no line number: the head of the file, which
\* is the whole of a file this short, or the error text.
_extract_code_snippet(r, name) ==
  LET file == FileNamed(r, name)
  IN  IF file.readable /\ file.decodable THEN file.content
      ELSE {"Error extracting code snippet"}

WithSnippet(r, f) ==
  IF f.file # "N/A"
    THEN [severity |-> f.severity, file |-> f.file, category |-> f.category,
          description |-> f.description,
          code_snippet |-> _extract_code_snippet(r, f.file)]
    ELSE f

\* lines 88-90
AddCodeSnippets ==
  /\ pc = "code_snippets"
  /\ findings' = [i \in 1..Len(findings) |-> WithSnippet(os_walk(repo_path, repo), findings[i])]
  /\ pc' = "calculate_scores"
  /\ UNCHANGED <<security_files, ran, profile, exit_code, repo_path, repo, category_scores, certification, report>>

(***************************************************************************)
(* _identify_strengths                                                     *)
(***************************************************************************)
\* "Authentication" in category and "Error Handling" in category: a
\* case-sensitive substring test, true of one label each.
NamesAuthentication(label) == label = "Authentication"

NamesErrorHandling(label) == label = "Error Handling"

_identify_strengths(fs, r) ==
  If(any(_find_files_with_pattern(r, "auth|authenticate|security"))
       /\ ~ \E i \in 1..Len(fs) : /\ fs[i].severity \in {"CRITICAL", "HIGH"}
                                  /\ NamesAuthentication(fs[i].category),
     <<"Authentication mechanisms implemented">>)
  \o If(any(_find_files_with_pattern(r, "https|ssl|tls")),
        <<"HTTPS/TLS implemented for data in transit">>)
  \o If(any(_find_files_with_pattern(r, "validate|schema|check")),
        <<"Input validation mechanisms present">>)
  \o If(any(_find_files_with_pattern(r, "rate_limit|throttle|limiter")),
        <<"Rate limiting implemented">>)
  \o If(any(_find_files_with_pattern(r, "try|except|error"))
          /\ ~ \E i \in 1..Len(fs) : /\ fs[i].severity \in {"CRITICAL", "HIGH"}
                                     /\ NamesErrorHandling(fs[i].category),
        <<"Error handling implemented">>)
  \o If(any(_find_files_with_pattern(r, "log\\.|logger|logging")),
        <<"Logging mechanisms implemented">>)

(***************************************************************************)
(* _identify_weaknesses and _group_findings_by_severity                    *)
(***************************************************************************)
\* The keys of category_findings in insertion order: the categories of the
\* findings in order of first appearance.
RECURSIVE CategoriesInOrder(_, _)
CategoriesInOrder(fs, i) ==
  IF i > Len(fs) THEN <<>>
  ELSE If(\A j \in 1..(i - 1) : fs[j].category # fs[i].category, <<fs[i].category>>)
         \o CategoriesInOrder(fs, i + 1)

FindingsIn(fs, category) == SelectSeq(fs, LAMBDA f : f.category = category)

\* An entry of the weaknesses list: the text, and the category the f-string
\* appends to it ("" for the call-outs, which name none).
Weakness(text, category) == [text |-> text, category |-> category]

MutWeaknessHighOnly(fs, category) ==
  If(Len(SelectSeq(FindingsIn(fs, category),
                   LAMBDA f : f.severity \in {"CRITICAL", "HIGH"})) >= 2,
     <<Weakness("Multiple high-severity issues in ", category)>>)

\* The loop body of lines 350-355 for one category.
CategoryWeakness(fs, category) ==
  LET findings_in  == FindingsIn(fs, category)
      critical_high == SelectSeq(findings_in, LAMBDA f : f.severity \in {"CRITICAL", "HIGH"})
  IN  IF Len(critical_high) >= 2
        THEN <<Weakness("Multiple high-severity issues in ", category)>>
      ELSE IF Len(findings_in) >= 3
        THEN <<Weakness("Multiple issues in ", category)>>
      ELSE <<>>

_identify_weaknesses(fs, r) ==
  LET categories == CategoriesInOrder(fs, 1)
  IN  Flatten([i \in 1..Len(categories) |-> CategoryWeakness(fs, categories[i])], 1)
      \o If(~ any(_find_files_with_pattern(r, "auth|authenticate|security")),
            <<Weakness("No authentication mechanisms detected", "")>>)
      \o If(~ any(_find_files_with_pattern(r, "validate|schema|check")),
            <<Weakness("Limited input validation", "")>>)
      \o If(~ any(_find_files_with_pattern(r, "https|ssl|tls")),
            <<Weakness("No HTTPS/TLS implementation detected", "")>>)
      \o If(~ any(_find_files_with_pattern(r, "rate_limit|throttle|limiter")),
            <<Weakness("No rate limiting mechanisms detected", "")>>)

\* The dict of five lists; every severity the detectors use is a key.
_group_findings_by_severity(fs) ==
  [severity \in Severities |-> SelectSeq(fs, LAMBDA f : f.severity = severity)]

(***************************************************************************)
(* scan(): the steps after the detectors                                   *)
(***************************************************************************)
NoCertification == [level |-> "", details |-> ""]

\* line 93: self._calculate_scores()
CalculateScores ==
  /\ pc = "calculate_scores"
  /\ category_scores' = _calculate_scores(findings)
  /\ pc' = "determine_certification_level"
  /\ UNCHANGED <<security_files, ran, profile, exit_code, repo_path, repo, findings, certification, report>>

\* line 96: certification = self._determine_certification_level()
DetermineCertificationLevel ==
  /\ pc = "determine_certification_level"
  /\ certification' = _determine_certification_level(findings, category_scores,
                                                   os_walk(repo_path, repo))
  /\ pc' = "report"
  /\ UNCHANGED <<security_files, ran, profile, exit_code, repo_path, repo, findings, category_scores, report>>

\* lines 99-128: the report dict. report holds the reports returned so far,
\* one per call of scan().
BuildReport ==
  /\ pc = "report"
  /\ report' = report \o
       << [metadata |-> [certification_level   |-> certification.level,
                         certification_details |-> certification.details],
           scores   |-> [overall          |-> _calculate_overall_score(category_scores),
                         authentication   |-> category_scores["authentication"],
                         data_protection  |-> category_scores["data_protection"],
                         input_validation |-> category_scores["input_validation"],
                         prompt_security  |-> category_scores["prompt_security"],
                         infrastructure   |-> category_scores["infrastructure"]],
           findings_summary |->
                        [total    |-> Len(findings),
                         critical |-> CountSeverity(findings, "CRITICAL"),
                         high     |-> CountSeverity(findings, "HIGH"),
                         medium   |-> CountSeverity(findings, "MEDIUM"),
                         low      |-> CountSeverity(findings, "LOW"),
                         info     |-> CountSeverity(findings, "INFO")],
           findings |-> findings,
           grouped_findings |-> _group_findings_by_severity(findings),
           strengths |-> _identify_strengths(findings, os_walk(repo_path, repo)),
           weaknesses |-> _identify_weaknesses(findings, os_walk(repo_path, repo))] >>
  /\ pc' = "done"
  /\ UNCHANGED <<security_files, ran, profile, exit_code, repo_path, repo, findings, category_scores, certification>>

(***************************************************************************)
(* generate_security_profile and the command line                          *)
(***************************************************************************)
\* The process has not exited.
Running == -1

\* generate_security_profile has not returned.
NoProfile == [output_format |-> "", error |-> FALSE, results |-> <<>>, md_report |-> <<>>]

\* A piece of md_report: its kind, its fixed text, the number the f-string
\* formats into it (a doubled score, a count or a sequence number), the
\* strings it formats into it, and the code snippet.
MdLine(kind, text, number, cells, snippet) ==
  [kind |-> kind, text |-> text, number |-> number, cells |-> cells, snippet |-> snippet]

Heading(text) == MdLine("h2", text, 0, <<>>, {})

Item(text, cells) == MdLine("item", text, 0, cells, {})

ScoreItem(text, score) == MdLine("item", text, score, <<>>, {})

\* lines 1036-1042
BasicInformation(results) ==
  <<Heading("## Basic Information"),
    Item("- **Name**: ", <<"repo_name">>),
    Item("- **Repository**: ", <<"github_url">>),
    Item("- **Primary Function**: [To be determined]", <<>>),
    Item("- **Evaluation Date**: ", <<"scan_date">>),
    Item("- **Evaluator**: MCP Security Scanner", <<>>),
    Item("- **Certification Level**: ", <<results.metadata.certification_level>>)>>

\* lines 1045-1051
SecurityScore(results) ==
  <<Heading("## Security Score"),
    ScoreItem("- **Overall Score**: ", results.scores.overall),
    ScoreItem("- **Authentication & Authorization**: ", results.scores.authentication),
    ScoreItem("- **Data Protection**: ", results.scores.data_protection),
    ScoreItem("- **Input Validation**: ", results.scores.input_validation),
    ScoreItem("- **Prompt Security**: ", results.scores.prompt_security),
    ScoreItem("- **Infrastructure Security**: ", results.scores.infrastructure)>>

\* lines 1054-1071
ExecutiveSummary(results) ==
  <<Heading("## Executive Summary"),
    MdLine("text", "This security profile was automatically generated by the MCP Security Scanner. The implementation received a certification level with an overall security score of",
           results.scores.overall, <<results.metadata.certification_level>>, {})>>
  \o If(results.strengths # <<>>,
        <<MdLine("text", "**Strengths**:", 0, <<>>, {})>>
          \o [i \in 1..Len(results.strengths) |-> Item("- ", <<results.strengths[i]>>)])
  \o If(results.weaknesses # <<>>,
        <<MdLine("text", "**Weaknesses**:", 0, <<>>, {})>>
          \o [i \in 1..Len(results.weaknesses) |->
                Item("- ", <<results.weaknesses[i].text, results.weaknesses[i].category>>)])
  \o <<MdLine("text", "A total of security findings were identified.",
              results.findings_summary.total, <<>>, {})>>

MutVulnerabilitiesNoInfo(results) ==
  LET listed == SelectSeq(results.findings, LAMBDA f : f.severity # "INFO")
  IN  <<Heading("## Vulnerabilities")>>
      \o [i \in 1..Len(listed) |->
            MdLine("row", "F", i,
                   <<listed[i].severity, listed[i].category, listed[i].description>>, {})]

\* lines 1074-1081: the table, one row per finding, "F" and the 1-based
\* position; the recommendation cell is the fixed text of the rule.
Vulnerabilities(results) ==
  <<Heading("## Vulnerabilities"),
    MdLine("table_head", "| ID | Severity | Category | Description | Recommendation |", 0, <<>>, {}),
    MdLine("table_rule", "|---|----------|----------|-------------|----------------|", 0, <<>>, {})>>
  \o [i \in 1..Len(results.findings) |->
        MdLine("row", "F", i,
               <<results.findings[i].severity, results.findings[i].category,
                 results.findings[i].description>>, {})]

\* lines 1084-1088
CertificationDetails(results) ==
  <<Heading("## Certification Details"),
    Item("- **Certification Level**: ", <<results.metadata.certification_level>>),
    Item("- **Justification**: ", <<results.metadata.certification_details>>),
    Item("- **Conditions**: This certification is based on automated analysis and should be verified by manual review.", <<>>),
    Item("- **Expiration**: + 6 months", <<"scan_date">>)>>

\* lines 1097-1106: one finding of a severity group.
DetailedFinding(finding, i) ==
  <<MdLine("h4", "#### ", i, <<finding.description>>, {}),
    Item("- **File**: ", <<finding.file>>),
    Item("- **Category**: ", <<finding.category>>),
    Item("- **Recommendation**: ", <<>>)>>
  \o If("code_snippet" \in DOMAIN finding /\ finding.code_snippet # {},
        <<MdLine("text", "**Code Snippet**:", 0, <<>>, finding.code_snippet)>>)

\* lines 1093-1096: a severity group that is not empty.
DetailedGroup(results, severity) ==
  LET group == results.grouped_findings[severity]
  IN  If(group # <<>>,
         <<MdLine("h3", "### Severity Findings", Len(group), <<severity>>, {})>>
           \o Flatten([i \in 1..Len(group) |-> DetailedFinding(group[i], i)], 1))

\* lines 1091-1108
DetailedFindings(results) ==
  <<Heading("## Detailed Findings")>>
  \o DetailedGroup(results, "CRITICAL") \o DetailedGroup(results, "HIGH")
  \o DetailedGroup(results, "MEDIUM") \o DetailedGroup(results, "LOW")

\* lines 1030-1110: md_report
MarkdownReport(results) ==
  <<MdLine("h1", "# MCP Security Profile: ", 0, <<"repo_name">>, {})>>
  \o BasicInformation(results) \o SecurityScore(results) \o ExecutiveSummary(results)
  \o Vulnerabilities(results) \o CertificationDetails(results) \o DetailedFindings(results)

\* except Exception as e: {"error": str(e)} or "# Error\n\n" + str(e); the
\* message is left out.
ErrorProfile(output_format) ==
  [output_format |-> output_format, error |-> TRUE, results |-> <<>>,
   md_report |-> IF output_format = "json" THEN <<>>
                 ELSE <<MdLine("h1", "# Error", 0, <<>>, {})>>]

\* generate_security_profile: returned holds the dict scan_github_repo
\* returned, or nothing when clone_repo or scan() raised. json.dumps keeps
\* the dict as it is; any other format than the two raises ValueError inside
\* the try.
generate_security_profile(returned, output_format) ==
  IF returned = <<>> THEN ErrorProfile(output_format)
  ELSE IF output_format = "json"
    THEN [output_format |-> "json", error |-> FALSE, results |-> returned,
          md_report |-> <<>>]
  ELSE IF output_format = "markdown"
    THEN [output_format |-> "markdown", error |-> FALSE, results |-> <<>>,
          md_report |-> MarkdownReport(returned[1])]
  ELSE ErrorProfile(output_format)

\* __main__ once scan_github_repo has returned or raised: the profile is
\* built, then printed or written to args.output, and the interpreter
\* reaches the end of the script, status 0; only a failing open() or write()
\* of the output file ends it with a traceback, status 1.
Main ==
  /\ pc \in {"done", "raised"}
  /\ exit_code = Running
  /\ Len(report) <= 1
  /\ \E output_format \in {"json", "markdown"}, output \in {"stdout", "file", "unwritable"} :
        /\ profile' = generate_security_profile(report, output_format)
        /\ exit_code' = IF output = "unwritable" THEN 1 ELSE 0
  /\ UNCHANGED <<security_files, ran, repo_path, repo, findings, category_scores, certification, report, pc>>

\* scan() called again on the same instance: nothing is reset, self.findings
\* is assigned in __init__ only.
ScanAgain ==
  /\ pc = "done"
  /\ Len(report) < MaxScans
  /\ exit_code = Running
  /\ pc' = DetectorOrder[1]
  /\ UNCHANGED <<security_files, ran, profile, exit_code, repo_path, repo, findings, category_scores, certification, report>>

NextPipeline == CalculateScores \/ DetermineCertificationLevel \/ BuildReport

(***************************************************************************)
(* Input families for the scoring and certification functions: a state     *)
(* just before line 93, with findings and repository contents drawn from   *)
(* bounded sets.                                                           *)
(***************************************************************************)
RECURSIVE Run(_, _)
Run(f, n) == IF n = 0 THEN <<>> ELSE <<f>> \o Run(f, n - 1)

PlainFindings ==
  {Finding(sev, "N/A", cat, "Issue") : sev \in Severities, cat \in CategoryLabels}

\* __init__: every bucket 0.
InitScores == [b \in Buckets |-> 0]

\* Any severities and labels: a run of one finding followed by a run of
\* another.
InitScore ==
  /\ profile = NoProfile
  /\ exit_code = Running
  /\ ran = NoneRan
  /\ security_files = NoFiles
  /\ repo_path = "directory"
  /\ repo = <<>>
  /\ \E f \in PlainFindings, g \in PlainFindings, n \in 0..MaxRun, k \in 0..1 :
        findings = Run(f, n) \o Run(g, k)
  /\ category_scores = InitScores
  /\ certification = NoCertification
  /\ report = <<>>
  /\ pc = "calculate_scores"

SpecScore == InitScore /\ [][NextPipeline]_vars

\* Findings of one category whose penalties add up to k half points.
PenaltyFindings(cat, k) ==
  Run(Finding("CRITICAL", "N/A", cat, "Issue"), k \div 8)
    \o Run(Finding("HIGH", "N/A", cat, "Issue"), (k % 8) \div 4)
    \o Run(Finding("MEDIUM", "N/A", cat, "Issue"), (k % 4) \div 2)
    \o Run(Finding("LOW", "N/A", cat, "Issue"), k % 2)

SparsePenalties == {0, 1, MaxPenalty \div 2, MaxPenalty}

\* Bucket scores across the whole range, bucket by bucket.
InitOverall ==
  /\ profile = NoProfile
  /\ exit_code = Running
  /\ ran = NoneRan
  /\ security_files = NoFiles
  /\ repo_path = "directory"
  /\ repo = <<>>
  /\ \E a \in 0..MaxPenalty, f \in 0..MaxPenalty,
        d \in SparsePenalties, i \in SparsePenalties, p \in SparsePenalties :
        findings = PenaltyFindings("Authentication", a)
                     \o PenaltyFindings("Data Protection", d)
                     \o PenaltyFindings("Input Validation", i)
                     \o PenaltyFindings("Content Security", p)
                     \o PenaltyFindings("Logging", f)
  /\ category_scores = InitScores
  /\ certification = NoCertification
  /\ report = <<>>
  /\ pc = "calculate_scores"

SpecOverall == InitOverall /\ [][NextPipeline]_vars

EvidenceLines == {"def authenticate(request):", "schema.validate(payload)",
                  "ctx = ssl.create_default_context()", "import jwt",
                  "import rbac", "cipher = Fernet(k)"}

SourceFile(name, content) ==
  [name |-> name, readable |-> TRUE, decodable |-> TRUE, content |-> content]

Fillers == {Finding("LOW", "N/A", "Authentication", "Issue"),
            Finding("MEDIUM", "N/A", "Authentication", "Issue"),
            Finding("LOW", "N/A", "Error Handling", "Issue")}

GateFindings ==
  {Finding(sev, "N/A", cat, "Issue") :
     sev \in Severities, cat \in {"Authentication", "Error Handling", "Secrets Management"}}
  \cup {Finding(sev, "N/A", cat, "Hardcoded credential") :
     sev \in Severities, cat \in {"Secrets Management", "Configuration"}}

\* Every combination of the evidence predicates, with findings that move
\* each severity count, the error-handling count and (a second bucket at
\* its floor) the overall score across 7.0.
InitCert ==
  /\ profile = NoProfile
  /\ exit_code = Running
  /\ ran = NoneRan
  /\ security_files = NoFiles
  /\ repo_path = "directory"
  /\ \E content \in SUBSET EvidenceLines : repo = <<SourceFile("server.py", content)>>
  /\ \E f \in Fillers, n \in 0..MaxFill, d \in {0, 9}, g \in GateFindings, k \in 0..1 :
        /\ d > 0 => k = 0
        /\ findings = Run(f, n)
                        \o Run(Finding("MEDIUM", "N/A", "Data Protection", "Issue"), d)
                        \o Run(g, k)
  /\ category_scores = InitScores
  /\ certification = NoCertification
  /\ report = <<>>
  /\ pc = "calculate_scores"

SpecCert == InitCert /\ [][NextPipeline]_vars

(***************************************************************************)
(* scan() on a repository tree                                             *)
(***************************************************************************)
\* The trees a clone leaves in the temporary directory.
ClonedTrees ==
  {<<>>, <<SourceFile("server.py", EvidenceLines)>>,
   <<SourceFile("server.py", {}), SourceFile("app.yaml", {"api_key = 'abc123'"})>>,
   <<[name |-> "server.py", readable |-> FALSE, decodable |-> TRUE, content |-> {}]>>}

\* clone_repo: git.Repo.clone_from fills the temporary directory, or fails
\* and the exception leaves scan_github_repo before any scanner exists.
CloneRepo ==
  /\ pc = "clone_repo"
  /\ \/ repo_path' = "directory" /\ repo' \in ClonedTrees /\ pc' = DetectorOrder[1]
     \/ pc' = "raised" /\ UNCHANGED <<repo_path, repo>>
  /\ UNCHANGED <<security_files, ran, profile, exit_code, findings, category_scores, certification, report>>

Detectors ==
  \/ CheckAuthenticationMechanisms
  \/ CheckAuthorizationControls
  \/ CheckMultiTenancy
  \/ CheckDataAtRest
  \/ CheckDataInTransit
  \/ CheckSensitiveDataHandling
  \/ CheckRequestValidation
  \/ CheckErrorHandling
  \/ CheckPromptInjectionSafeguards
  \/ CheckContentFiltering
  \/ CheckRateLimiting
  \/ CheckLoggingSecurity
  \/ CheckDependencySecurity
  \/ CheckConfigurationSecurity

(***************************************************************************)
(* MCPAnalysisAgent._extract_security_files                                *)
(***************************************************************************)
NoType == "None"

\* file_patterns, in the insertion order of the dict.
file_patterns ==
  <<[category |-> "config",
     patterns |-> <<"config.py", "settings.py", ".env.example", "config.json",
                    "docker-compose.yml", "Dockerfile">>],
    [category |-> "auth",
     patterns |-> <<"auth.py", "authentication.py", "security.py", "login.py",
                    "oauth.py", "jwt.py", "token.py">>],
    [category |-> "api",
     patterns |-> <<"api.py", "routes.py", "endpoints.py", "views.py",
                    "controllers.py", "handlers.py">>],
    [category |-> "main",
     patterns |-> <<"app.py", "main.py", "server.py", "index.py",
                    "__main__.py", "run.py">>],
    [category |-> "docs",
     patterns |-> <<"README.md", "SECURITY.md", "API.md", "CONTRIBUTING.md">>],
    [category |-> "dependencies",
     patterns |-> <<"requirements.txt", "package.json", "pyproject.toml",
                    "setup.py", "Pipfile", "poetry.lock">>]>>

\* File names of a repository.
AgentNames ==
  {"config.py", "app_config.py", "oauth.py", "api.py", "myapp.py", "README.md",
   "readme.md", "dev-requirements.txt", "setup.py", "helpers.py", "notes.txt"}

\* The names for which file.endswith(pattern) or file == pattern.
NameHits(pattern) ==
  CASE pattern = "config.py"        -> {"config.py", "app_config.py"}
    [] pattern = "auth.py"          -> {"oauth.py"}
    [] pattern = "oauth.py"         -> {"oauth.py"}
    [] pattern = "api.py"           -> {"api.py"}
    [] pattern = "app.py"           -> {"myapp.py"}
    [] pattern = "README.md"        -> {"README.md"}
    [] pattern = "requirements.txt" -> {"dev-requirements.txt"}
    [] pattern = "setup.py"         -> {"setup.py"}
    [] pattern = ".py"              -> {"config.py", "app_config.py", "oauth.py", "api.py",
                                        "myapp.py", "setup.py", "helpers.py"}
    [] OTHER                        -> {}

\* Lines of a file the agent reads.
AgentLines ==
  {"x = 1", "def Login(user):", "TOKEN = 'x'", "@app.route('/x')",
   "import Settings", "if __name__ == '__main__':", "if __name__ == \"__main__\":"}

\* The lines whose lowercased text contains the keyword.
KeywordHits(keyword) ==
  CASE keyword = "login"     -> {"def Login(user):"}
    [] keyword = "token"     -> {"TOKEN = 'x'"}
    [] keyword = "app.route" -> {"@app.route('/x')"}
    [] keyword = "settings"  -> {"import Settings"}
    [] keyword = "if __name__ == '__main__'" -> {"if __name__ == '__main__':"}
    [] OTHER                 -> {}

\* keyword in f.read().lower()
InContent(keyword, file) == file.content \cap KeywordHits(keyword) # {}

\* Directories of a repository: its root, the metadata of git, and a
\* directory whose name only begins like it.
AgentDirs == {"", ".git", ".github"}

\* relative_path.split(os.path.sep)
PathParts(file) == IF file.dir = "" THEN <<file.name>> ELSE <<file.dir, file.name>>

MutContentConfigFirst(file) ==
  IF InContent("config", file) \/ InContent("settings", file) \/ InContent("environment", file)
    THEN "config"
  ELSE IF InContent("auth", file) \/ InContent("login", file) \/ InContent("token", file)
    THEN "auth"
  ELSE IF InContent("app.route", file) \/ InContent("fastapi", file) \/ InContent("endpoint", file)
    THEN "api"
  ELSE IF InContent("if __name__ == '__main__'", file) THEN "main"
  ELSE NoType

\* lines 219-236, for a file that opens and decodes.
_determine_file_type_by_content(file) ==
  IF InContent("auth", file) \/ InContent("login", file) \/ InContent("token", file)
    THEN "auth"
  ELSE IF InContent("app.route", file) \/ InContent("fastapi", file) \/ InContent("endpoint", file)
    THEN "api"
  ELSE IF InContent("config", file) \/ InContent("settings", file) \/ InContent("environment", file)
    THEN "config"
  ELSE IF InContent("if __name__ == '__main__'", file) THEN "main"
  ELSE NoType

\* any(file.endswith(pattern) or file == pattern for pattern in patterns)
AnyPattern(name, patterns) ==
  \E i \in DOMAIN patterns : name \in NameHits(patterns[i])

RECURSIVE TypeByName(_, _)
\* lines 191-194: the loop over file_patterns.items() with its break.
TypeByName(name, i) ==
  IF i > Len(file_patterns) THEN NoType
  ELSE IF AnyPattern(name, file_patterns[i].patterns) THEN file_patterns[i].category
  ELSE TypeByName(name, i + 1)

\* Lines 186-213 for one file: what happens to the mapping, and whether an
\* open() raises. "skip" leaves the mapping as it is.
ExtractOne(file) ==
  LET by_name == TypeByName(file.name, 1)
      sniffs  == by_name = NoType /\ file.name \in NameHits(".py")
      file_type ==
        IF by_name # NoType THEN by_name
        ELSE IF sniffs /\ file.readable /\ file.decodable
          THEN _determine_file_type_by_content(file)
        ELSE NoType
  IN  IF \E i \in DOMAIN PathParts(file) : PathParts(file)[i] = ".git"
        THEN [outcome |-> "skip", file_type |-> NoType]
      ELSE IF sniffs /\ ~file.readable
        THEN [outcome |-> "raise", file_type |-> NoType]
      ELSE IF file_type = NoType
        THEN [outcome |-> "skip", file_type |-> NoType]
      ELSE IF ~file.readable
        THEN [outcome |-> "raise", file_type |-> NoType]
      ELSE IF ~file.decodable
        THEN [outcome |-> "skip", file_type |-> NoType]
      ELSE [outcome |-> "enter", file_type |-> file_type]

\* security_files[relative_path] = {...}
Entered(mapping, path, file_type) ==
  [q \in DOMAIN mapping \cup {path} |-> IF q = path THEN file_type ELSE mapping[q]]

RECURSIVE ExtractFrom(_, _, _)
\* The walk of lines 181-213 from file i on.
ExtractFrom(files, i, mapping) ==
  IF i > Len(files) THEN [security_files |-> mapping, raised |-> FALSE]
  ELSE LET one == ExtractOne(files[i])
       IN  IF one.outcome = "raise" THEN [security_files |-> mapping, raised |-> TRUE]
           ELSE IF one.outcome = "skip" THEN ExtractFrom(files, i + 1, mapping)
           ELSE ExtractFrom(files, i + 1,
                            Entered(mapping, PathParts(files[i]), one.file_type))

_extract_security_files(files) == ExtractFrom(files, 1, NoFiles)

\* One call of _extract_security_files on the repository.
ExtractSecurityFiles ==
  /\ pc = "extract_security_files"
  /\ LET result == _extract_security_files(repo)
     IN  /\ security_files' = result.security_files
         /\ pc' = IF result.raised THEN "raised" ELSE "extracted"
  /\ UNCHANGED <<ran, profile, exit_code, repo_path, repo, findings, category_scores,
                 certification, report>>

(***************************************************************************)
(* The detectors in any order                                              *)
(***************************************************************************)
\* The detector at position k of scan().
Detector(k, r, legacy) ==
  CASE k = 1  -> check_authentication_mechanisms(r)
    [] k = 2  -> check_authorization_controls(r)
    [] k = 3  -> check_multi_tenancy(r)
    [] k = 4  -> check_data_at_rest(r)
    [] k = 5  -> check_data_in_transit(r)
    [] k = 6  -> check_sensitive_data_handling(r)
    [] k = 7  -> check_request_validation(r)
    [] k = 8  -> check_error_handling(r)
    [] k = 9  -> check_prompt_injection_safeguards(r)
    [] k = 10 -> check_content_filtering(r)
    [] k = 11 -> check_rate_limiting(r)
    [] k = 12 -> check_logging_security(r)
    [] k = 13 -> check_dependency_security(r, legacy)
    [] k = 14 -> check_configuration_security(r)

\* Trees for the detectors in any order: a pinned manifest alone, which
\* leaves four detectors with the finding of an absent mechanism; a source
\* file in which the prompt detector appends twice; and a file that cannot
\* be opened, on which four detectors raise.
AnyOrderTrees ==
  {<<[name |-> "requirements.txt", readable |-> TRUE, decodable |-> TRUE,
      content |-> {"flask==2.2.0"}]>>,
   <<[name |-> "requirements.txt", readable |-> TRUE, decodable |-> TRUE,
      content |-> {"flask==2.2.0"}],
     SourceFile("server.py", {"def authenticate(request):", "import rbac",
                              "ctx = ssl.create_default_context()",
                              "system_prompt = f'{user}'"})>>,
   <<[name |-> "server.py", readable |-> FALSE, decodable |-> TRUE, content |-> {}]>>}

\* What each detector does on each of these trees; a detector reads the
\* tree and nothing else, so its result is the same at every call.
AnyOrderResults ==
  [t \in AnyOrderTrees |->
     [legacy \in BOOLEAN |->
        [k \in 1..Len(DetectorOrder) |->
           Detector(k, os_walk("directory", t), legacy)]]]

\* The steps of a detector run next to others: one per append, the last
\* with its return or its exception; a detector that appends nothing has
\* the one step of its return.
StepsOf(result) == Max(1, Len(result.findings))

\* One append of one detector, whichever detector and whatever the others
\* have done: the calls of lines 72-85 in any permutation, or interleaved
\* with each append atomic.
InterleavedDetector ==
  /\ pc = "detectors"
  /\ \E legacy \in BOOLEAN, k \in DOMAIN ran :
        LET results == AnyOrderResults[repo][legacy]
            n       == ran[k] + 1
            after   == [ran EXCEPT ![k] = n]
        IN  /\ n <= StepsOf(results[k])
            /\ findings' = Appends(findings,
                                   IF n <= Len(results[k].findings)
                                   THEN <<results[k].findings[n]>> ELSE <<>>)
            /\ ran' = after
            /\ pc' = IF n = StepsOf(results[k]) /\ results[k].raised
                       THEN "raised"
                     ELSE IF \A j \in DOMAIN after : after[j] = StepsOf(results[j])
                       THEN "code_snippets"
                     ELSE "detectors"
  /\ UNCHANGED <<security_files, profile, exit_code, repo_path, repo, category_scores, certification, report>>

NextAnyOrder == InterleavedDetector \/ AddCodeSnippets \/ NextPipeline

Next == CloneRepo \/ Detectors \/ AddCodeSnippets \/ NextPipeline \/ ScanAgain \/ Main

Range(s) == {s[i] : i \in 1..Len(s)}

\* The subsets of S of at most k elements.
RECURSIVE UpTo(_, _)
UpTo(S, k) ==
  IF k = 0 THEN {{}}
  ELSE UpTo(S, k - 1) \cup {c \cup {x} : c \in UpTo(S, k - 1), x \in S}

File(name, readable, decodable, content) ==
  [name |-> name, readable |-> readable, decodable |-> decodable, content |-> content]

BronzeLines == {"def authenticate(request):", "schema.validate(payload)",
                "ctx = ssl.create_default_context()"}


TreeNames == {"server.py", "utils.py", "config.py", "setup.py", "config.json",
              "settings.toml", "pyproject.toml", "requirements.txt"}

\* A file that cannot be opened, or cannot be decoded.
DamagedFiles ==
  UNION {{File(name, FALSE, TRUE, {}), File(name, TRUE, FALSE, {})} : name \in TreeNames}

\* Sound files to stand next to a damaged one.
SoundFiles ==
  {SourceFile("server.py", BronzeLines),
   SourceFile("utils.py", {"except:"}),
   SourceFile("app.yaml", {"api_key = 'abc123'"}),
   SourceFile("pyproject.toml", {"[project]\ndependencies = [\"requests\"]"}),
   SourceFile("requirements.txt", {"flask==latest"})}

\* The trees scan() is run on:
\*  - one Python file of up to MaxLines lines;
\*  - two Python files of at most one line each;
\*  - a Python file with or without the Bronze evidence, next to a
\*    configuration file or a requirements.txt;
\*  - a Python file next to a setup.py or a pyproject.toml;
\*  - one file that cannot be opened, or cannot be decoded, alone or next
\*    to a sound file, in either order;
\*  - the empty tree.
Trees ==
  {<<SourceFile(name, content)>> :
      name \in {"server.py", "utils.py"}, content \in UpTo(Range(PyLines), MaxLines)}
  \cup {<<SourceFile("server.py", c1), SourceFile("utils.py", c2)>> :
      c1 \in UpTo(Range(PyLines), 1), c2 \in UpTo(Range(PyLines), 1)}
  \cup {<<SourceFile("server.py", evidence), SourceFile(name, content)>> :
      evidence \in {{}, BronzeLines, EvidenceLines},
      name \in ConfigNames,
      content \in SUBSET Range(ConfigLines)}
  \cup {<<SourceFile("server.py", evidence), SourceFile("requirements.txt", content)>> :
      evidence \in {{}, BronzeLines},
      content \in UpTo(Range(RequirementLines), MaxLines)}
  \cup {<<SourceFile("server.py", {}), SourceFile("setup.py", content)>> :
      content \in SUBSET Range(SetupLines)}
  \cup {<<SourceFile("server.py", {}), SourceFile("pyproject.toml", content)>> :
      content \in SUBSET Range(PyprojectLines)}
  \cup {<<damaged>> : damaged \in DamagedFiles}
  \cup UNION {{<<pair[1], pair[2]>>, <<pair[2], pair[1]>>} :
      pair \in {q \in DamagedFiles \X SoundFiles : q[1].name # q[2].name}}
  \cup {<<>>}

\* Trees under a root that cannot be listed.
UnlistedTrees == {<<>>, <<SourceFile("server.py", BronzeLines)>>,
                  <<SourceFile("server.py", EvidenceLines)>>}

\* __init__, and a path to scan: a directory holding a tree, a path that
\* does not exist, or a directory that cannot be read.
Init ==
  /\ \/ /\ \/ repo_path = "directory" /\ repo \in Trees
           \/ repo_path = "missing" /\ repo = <<>>
           \/ repo_path = "unreadable" /\ repo \in UnlistedTrees
        /\ pc = DetectorOrder[1]
     \/ repo_path = "github_url" /\ repo = <<>> /\ pc = "clone_repo"
  /\ findings = <<>>
  /\ category_scores = InitScores
  /\ certification = NoCertification
  /\ report = <<>>
  /\ profile = NoProfile
  /\ exit_code = Running
  /\ ran = NoneRan
  /\ security_files = NoFiles

Spec == Init /\ [][Next]_vars

(***************************************************************************)
(* Properties of the scoring functions                                     *)
(***************************************************************************)
Scored == pc \in {"determine_certification_level", "report", "done"}

Decided == pc \in {"report", "done"}

\* C1: after _calculate_scores, whatever the findings, each of the five
\* bucket scores lies in [1.0, 10.0] and is a multiple of 0.5 (a doubled
\* score in 2..20).
C1_ScoresInRange ==
  Scored => \A b \in Buckets : category_scores[b] \in 2..20

\* A CRITICAL-heavy run drives a bucket to the floor while another finding
\* leaves a second bucket strictly between the floor and 10.
C1_Witness ==
  /\ Scored
  /\ \E b \in Buckets : category_scores[b] = 2
  /\ \E b \in Buckets : category_scores[b] \in 3..19
  /\ Len(findings) >= 3

\* The findings whose category maps to bucket b.
InBucket(fs, b) == {i \in 1..Len(fs) : score_category(Lower(fs[i].category)) = b}

CountIn(fs, b, sev) == Cardinality({i \in InBucket(fs, b) : fs[i].severity = sev})

\* Twice the penalties of the findings of bucket b: 4, 2, 1, 0.5, 0.
DoubledPenalties(fs, b) ==
  8 * CountIn(fs, b, "CRITICAL") + 4 * CountIn(fs, b, "HIGH")
    + 2 * CountIn(fs, b, "MEDIUM") + CountIn(fs, b, "LOW") + 0 * CountIn(fs, b, "INFO")

\* C2: each bucket score equals max(1.0, 10.0 - sum of the penalties of
\* exactly the findings mapped to that bucket), the penalty being 4 for
\* CRITICAL, 2 for HIGH, 1 for MEDIUM, 0.5 for LOW and 0 for INFO.
C2_ScoreIsTenMinusPenalties ==
  Scored => \A b \in Buckets :
              category_scores[b] = Max(2, 20 - DoubledPenalties(findings, b))

\* Two findings of different severities land in two different buckets and
\* lower each by its own penalty.
C2_Witness ==
  /\ Scored
  /\ \E b1, b2 \in Buckets :
        /\ b1 # b2
        /\ category_scores[b1] = 16
        /\ category_scores[b2] = 19
  /\ \E i, j \in 1..Len(findings) :
        /\ findings[i].severity = "HIGH"
        /\ findings[j].severity = "LOW"

Abs(x) == IF x < 0 THEN -x ELSE x

\* C3: the overall score is a multiple of 0.5 nearest to
\* 0.25 a + 0.20 d + 0.20 i + 0.20 p + 0.15 f (at most 0.25 away from it),
\* and the report carries that value.
C3_OverallIsNearestHalf ==
  pc = "done" =>
    /\ Abs(20 * report[1].scores.overall - ExactWeightedSum40(category_scores)) <= 10
    /\ report[1].scores.overall = _calculate_overall_score(category_scores)

\* The weighted sum is strictly between two multiples of 0.5 and not half
\* way, with all five buckets different from 10.
C3_Witness ==
  /\ pc = "done"
  /\ \A b \in Buckets : category_scores[b] < 20
  /\ ExactWeightedSum40(category_scores) % 20 \in {3, 17}
  /\ report[1].scores.overall \in 3..19

\* The labels of the category-to-bucket table, lowercased.
MappedLabels == {"authentication", "authorization", "access control",
                 "data persistence", "encryption", "data protection",
                 "data validation", "api security", "input validation",
                 "prompt injection", "content security",
                 "rate limiting", "logging", "dependencies", "configuration"}

ScoreNeutral(f) == Lower(f.category) \notin MappedLabels \/ f.severity = "INFO"

RemoveAt(fs, i) == [j \in 1..(Len(fs) - 1) |-> IF j < i THEN fs[j] ELSE fs[j + 1]]

\* C4: a finding with an unmapped category, and any INFO finding, leaves the
\* five bucket scores and the overall score as they are without it.
C4_NeutralFindingsChangeNothing ==
  pc = "done" =>
    \A i \in 1..Len(findings) :
       ScoreNeutral(findings[i]) =>
         /\ category_scores = _calculate_scores(RemoveAt(findings, i))
         /\ report[1].scores.overall
              = _calculate_overall_score(_calculate_scores(RemoveAt(findings, i)))

\* An INFO finding with a mapped category, and an unmapped HIGH finding, next
\* to a finding that does lower a bucket.
C4_Witness ==
  /\ pc = "done"
  /\ \E i, j \in 1..Len(findings) :
        /\ findings[i].severity = "INFO"
        /\ Lower(findings[i].category) \in MappedLabels
        /\ ~ ScoreNeutral(findings[j])
  /\ \E b \in Buckets : category_scores[b] < 20

C4_WitnessUnmapped ==
  /\ pc = "done"
  /\ \E i, j \in 1..Len(findings) :
        /\ findings[i].severity = "HIGH"
        /\ Lower(findings[i].category) \notin MappedLabels
        /\ ~ ScoreNeutral(findings[j])

(***************************************************************************)
(* Properties of the certification ladder                                  *)
(***************************************************************************)
has_auth(r) == any(_find_files_with_pattern(r, "auth|authenticate|security"))

has_input_validation(r) == any(_find_files_with_pattern(r, "validate|schema|check"))

has_https(r) == any(_find_files_with_pattern(r, "https|ssl|tls"))

BronzePredicates(fs, r) ==
  /\ CountSeverity(fs, "CRITICAL") = 0
  /\ has_auth(r)
  /\ has_input_validation(r)
  /\ has_https(r)
  /\ ~ _has_hardcoded_secrets(fs)

\* At most 2 findings whose category contains 'error handling', none of them
\* CRITICAL or HIGH.
ErrorHandlingWithinLimit(fs) ==
  LET eh == {i \in 1..Len(fs) : Lower(fs[i].category) = "error handling"}
  IN  /\ Cardinality(eh) \in {0, 1, 2}
      /\ \A i \in eh : fs[i].severity \notin {"CRITICAL", "HIGH"}

SilverPredicates(fs, cs, r) ==
  /\ CountSeverity(fs, "HIGH") = 0
  /\ _calculate_overall_score(cs) >= 14
  /\ _has_strong_auth(r)
  /\ ErrorHandlingWithinLimit(fs)

GoldPredicates(fs, cs, r) ==
  /\ CountSeverity(fs, "MEDIUM") = 0
  /\ _calculate_overall_score(cs) >= 17
  /\ _has_rbac(r)
  /\ _has_encryption_at_rest(r)

\* C5: ladder monotonicity. A Gold decision implies every Silver and every
\* Bronze predicate, a Silver decision every Bronze predicate.
C5_LadderMonotone ==
  Decided =>
    /\ certification.level = "Gold" =>
         /\ SilverPredicates(findings, category_scores, repo)
         /\ BronzePredicates(findings, repo)
    /\ certification.level = "Silver" => BronzePredicates(findings, repo)

C5_Witness ==
  /\ Decided
  /\ certification.level = "Gold"
  /\ findings # <<>>

C5_WitnessSilver ==
  /\ Decided
  /\ certification.level = "Silver"
  /\ GoldPredicates(findings, category_scores, repo) = FALSE
  /\ CountSeverity(findings, "MEDIUM") > 0

\* C6: the level is at least Bronze exactly when there is no CRITICAL
\* finding, the auth, input-validation and TLS predicates are true and the
\* hardcoded-secret predicate is false; otherwise it is None with the
\* justification 'Does not meet minimum certification requirements'.
C6_BronzeIff ==
  Decided =>
    /\ certification.level \in {"Bronze", "Silver", "Gold"}
         <=> BronzePredicates(findings, repo)
    /\ ~ BronzePredicates(findings, repo) =>
         certification = [level |-> "None",
                          details |-> "Does not meet minimum certification requirements"]

\* The lone obstacle to Bronze is a CRITICAL finding.
C6_Witness ==
  /\ Decided
  /\ certification.level = "None"
  /\ CountSeverity(findings, "CRITICAL") = 1
  /\ has_auth(repo) /\ has_input_validation(repo) /\ has_https(repo)
  /\ ~ _has_hardcoded_secrets(findings)

C6_WitnessBronze ==
  /\ Decided
  /\ certification.level = "Bronze"
  /\ ~ _has_strong_auth(repo)

\* C7: given Bronze, the level is at least Silver iff there is no HIGH
\* finding, the overall score is >= 7.0, the strong-auth predicate holds and
\* the 'error handling' findings are at most 2 with none CRITICAL or HIGH;
\* given Silver, the level is Gold iff there is no MEDIUM finding, the
\* overall score is >= 8.5 and the RBAC and encryption-at-rest predicates
\* hold.
C7_SilverGoldIff ==
  Decided =>
    /\ BronzePredicates(findings, repo) =>
         (certification.level \in {"Silver", "Gold"}
            <=> SilverPredicates(findings, category_scores, repo))
    /\ (BronzePredicates(findings, repo) /\ SilverPredicates(findings, category_scores, repo)) =>
         (certification.level = "Gold"
            <=> GoldPredicates(findings, category_scores, repo))

\* Three LOW error-handling findings alone keep a repository at Bronze.
C7_Witness ==
  /\ Decided
  /\ certification.level = "Bronze"
  /\ CountSeverity(findings, "HIGH") = 0
  /\ _calculate_overall_score(category_scores) >= 14
  /\ _has_strong_auth(repo)
  /\ Cardinality({i \in 1..Len(findings) :
                    Lower(findings[i].category) = "error handling"}) = 3

\* The overall score alone decides: below 7.0 without a HIGH finding, and
\* below 8.5 without a MEDIUM finding.
C7_WitnessScoreSilver ==
  /\ Decided
  /\ certification.level = "Bronze"
  /\ CountSeverity(findings, "HIGH") = 0
  /\ _has_strong_auth(repo)
  /\ ErrorHandlingWithinLimit(findings)
  /\ _calculate_overall_score(category_scores) < 14

C7_WitnessScoreGold ==
  /\ Decided
  /\ certification.level = "Silver"
  /\ CountSeverity(findings, "MEDIUM") = 0
  /\ _has_rbac(repo) /\ _has_encryption_at_rest(repo)
  /\ _calculate_overall_score(category_scores) < 17

\* C8: with no findings and the auth, validation, tls, strong_auth, rbac and
\* encryption_at_rest predicates true (hardcoded_secrets false), the level
\* is Gold and the overall score 10.0.
C8_CleanRepositoryIsGold ==
  ( /\ pc = "done"
    /\ findings = <<>>
    /\ has_auth(repo) /\ has_input_validation(repo) /\ has_https(repo)
    /\ _has_strong_auth(repo) /\ _has_rbac(repo) /\ _has_encryption_at_rest(repo)
    /\ ~ _has_hardcoded_secrets(findings) )
  => /\ report[1].metadata.certification_level = "Gold"
     /\ report[1].scores.overall = 20

C8_Witness ==
  /\ pc = "done"
  /\ findings = <<>>
  /\ has_auth(repo) /\ has_input_validation(repo) /\ has_https(repo)
  /\ _has_strong_auth(repo) /\ _has_rbac(repo) /\ _has_encryption_at_rest(repo)

(***************************************************************************)
(* Properties of a whole scan                                              *)
(***************************************************************************)
IsHardcodedSecretFinding(f) ==
  /\ f.severity = "HIGH"
  /\ f.description = "Hardcoded sensitive data in configuration file"

HardcodedSecretCount(fs) ==
  Cardinality({i \in 1..Len(fs) : IsHardcodedSecretFinding(fs[i])})

\* C9: once the level is decided, a scan that emitted the HIGH finding
\* 'Hardcoded sensitive data in configuration file' has a true
\* hardcoded-secret predicate and the level None.
C9_HardcodedSecretBlocksBronze ==
  (Decided /\ HardcodedSecretCount(findings) > 0)
  => /\ _has_hardcoded_secrets(findings)
     /\ certification.level = "None"

\* C10: in every state of a scan no finding has the category
\* 'Secrets Management' and _has_hardcoded_secrets() is False, so a decided
\* level never fails on the hardcoded-secret condition: with the other
\* Bronze conditions met it is at least Bronze, however many
\* hardcoded-secret findings there are.
C10_NoSecretsManagementFinding ==
  /\ \A i \in 1..Len(findings) : findings[i].category # "Secrets Management"
  /\ ~ _has_hardcoded_secrets(findings)
  /\ (Decided /\ CountSeverity(findings, "CRITICAL") = 0
        /\ has_auth(os_walk(repo_path, repo))
        /\ has_input_validation(os_walk(repo_path, repo))
        /\ has_https(os_walk(repo_path, repo)))
     => certification.level # "None"

C10_Witness ==
  /\ pc = "done"
  /\ HardcodedSecretCount(findings) >= 2
  /\ certification.level = "Bronze"

\* C11: a second scan() on the same instance and an unchanged tree returns
\* a report equal to the first in every field (the report of the model has
\* no scan_date); two fresh instances both start in Init.
C11_SecondReportEqualsFirst ==
  Len(report) >= 2 => report[2] = report[1]

\* C12: with a repository root that does not exist or cannot be read,
\* scan() returns no report.
C12_MissingRootReturnsNoReport ==
  repo_path # "directory" => report = <<>>

(***************************************************************************)
(* Properties of the detectors                                             *)
(***************************************************************************)
\* The files the scan sees.
Tree == os_walk(repo_path, repo)

\* The steps of scan() after detector number k has returned.
StepsAfter(k) ==
  {DetectorOrder[j] : j \in (k + 1)..Len(DetectorOrder)}
    \cup {"code_snippets", "calculate_scores", "determine_certification_level",
          "report", "done"}

\* The first scan() of the instance, up to its return.
FirstScan == Len(report) = 0 \/ (Len(report) = 1 /\ pc = "done")

References(fs, name) == {j \in 1..Len(fs) : fs[j].file = name}

\* C13: a file that cannot be opened never makes scan() raise, and no
\* finding references it.
C13_UnreadableFileIsSkipped ==
  \A i \in 1..Len(Tree) :
     ~ Tree[i].readable => pc # "raised" /\ References(findings, Tree[i].name) = {}

\* C14: a file that cannot be decoded never makes scan() raise, and no
\* detector emits a finding for it.
C14_UndecodableFileIsSkipped ==
  \A i \in 1..Len(Tree) :
     (Tree[i].readable /\ ~ Tree[i].decodable)
        => pc # "raised" /\ References(findings, Tree[i].name) = {}

\* The findings a step appends.
Appended == SubSeq(findings', Len(findings) + 1, Len(findings'))

Manifests == SelectFiles(Tree, ManifestNames, 1)

ParseFails(file) == ~ file.readable \/ ~ file.decodable

HasUnparsableVersion(file) ==
  \E i \in 1..Len(_extract_dependencies(file).dependencies) :
     Unparsable(_extract_dependencies(file).dependencies[i])

HasUnpinned(file) ==
  \E i \in 1..Len(_extract_dependencies(file).dependencies) :
     _extract_dependencies(file).dependencies[i].version = NoVersion

DependenciesOf(file) == _extract_dependencies(file).dependencies

\* Every file of the tree can be opened: no detector raises on open().
AllReadable == \A i \in 1..Len(Tree) : Tree[i].readable

\* C16: in a tree whose files can all be opened, a dependency of a known package whose version string is not a
\* version is treated as unpinned: the scan does not raise, the manifest
\* gets no HIGH finding for it, and once check_dependency_security has
\* returned it has the MEDIUM 'no version specified' finding.
C16_UnparsableVersionIsUnpinned ==
  AllReadable =>
  \A i \in 1..Len(Manifests) :
     \A k \in 1..Len(DependenciesOf(Manifests[i])) :
        Unparsable(DependenciesOf(Manifests[i])[k]) =>
           /\ pc # "raised"
           /\ \A j \in References(findings, Manifests[i].name) :
                 findings[j].category = "Dependencies" => findings[j].severity # "HIGH"
           /\ (pc \in StepsAfter(13) =>
                 \E j \in References(findings, Manifests[i].name) :
                    /\ findings[j].category = "Dependencies"
                    /\ findings[j].severity = "MEDIUM")

\* The manifest lines that pin a package of the baseline table below its
\* baseline, with the text that names both versions.
PinsBelowBaseline ==
  {[line |-> "flask==2.0.0", package |-> "flask",
    names |-> "Vulnerable dependency: flask==2.0.0 (should be >= 2.2.0)"],
   [line |-> "Django==3.1.0", package |-> "django",
    names |-> "Vulnerable dependency: Django==3.1.0 (should be >= 3.2.0)"],
   [line |-> "setup(install_requires=['flask==2.0.0', 'requests'])", package |-> "flask",
    names |-> "Vulnerable dependency: flask==2.0.0 (should be >= 2.2.0)"],
   [line |-> "[project]\ndependencies = [\"flask==2.0.0\"]", package |-> "flask",
    names |-> "Vulnerable dependency: flask==2.0.0 (should be >= 2.2.0)"]}

\* The manifest lines that pin a package of the baseline table at or above
\* its baseline.
PinsAtBaseline ==
  {"flask==2.2.0", "requests>=2.31.0", "setup(install_requires=['flask==2.2.0'])"}

\* The other lines of the vocabulary that name the package.
OtherPinsOf(package) ==
  IF package = "flask"
    THEN {"flask==2.0.0", "flask==2.2.0", "flask==latest",
          "setup(install_requires=['flask==2.0.0', 'requests'])",
          "setup(install_requires=['flask==2.2.0'])",
          "[project]\ndependencies = [\"flask==2.0.0\"]"}
    ELSE {}

\* C17: in a tree whose files can all be read, once check_dependency_security
\* has returned, a manifest whose only pin of a baseline package is below the
\* baseline has a HIGH 'Dependencies' finding naming both versions, and the
\* infrastructure bucket is below 10.0 once the scores are computed; a
\* manifest whose only line pins at or above the baseline has no HIGH
\* 'Dependencies' finding.
C17_PinBelowBaselineIsHigh ==
  (AllReadable /\ pc \in StepsAfter(13)) =>
     \A i \in 1..Len(Manifests) :
        /\ \A pin \in PinsBelowBaseline :
              (/\ Manifests[i].decodable
               /\ Manifests[i].content \cap OtherPinsOf(pin.package) = {pin.line})
                 => /\ \E j \in References(findings, Manifests[i].name) :
                          /\ findings[j].severity = "HIGH"
                          /\ findings[j].category = "Dependencies"
                          /\ findings[j].description = pin.names
                    /\ Scored => category_scores.infrastructure < 20
        /\ \A line \in PinsAtBaseline :
              (Manifests[i].decodable /\ Manifests[i].content = {line})
                 => \A j \in References(findings, Manifests[i].name) :
                       findings[j].category = "Dependencies" => findings[j].severity # "HIGH"

\* The lines of the vocabulary that are an except clause with no exception
\* type.
BareExceptLines == {"except:"}

BareExceptFindings(name) ==
  {j \in References(findings, name) :
      /\ findings[j].severity = "LOW"
      /\ findings[j].category = "Error Handling"
      /\ findings[j].description = "Overly broad exception handling (bare except clause)"}

\* C18: in the first scan of a tree whose files can all be opened, once
\* check_error_handling has returned, every Python file that holds a bare
\* except clause has exactly one LOW 'Error Handling' bare-except finding
\* that references it, whatever its other lines are.
C18_BareExceptIsOneLowFinding ==
  (FirstScan /\ AllReadable /\ pc \in StepsAfter(8)) =>
     \A i \in 1..Len(_find_python_files(Tree)) :
        LET file == _find_python_files(Tree)[i]
        IN  (file.decodable /\ file.content \cap BareExceptLines # {})
               => Cardinality(BareExceptFindings(file.name)) = 1

ConfigFiles == SelectFiles(Tree, ConfigNames, 1)

MatchesKeysAndSecrets(file) ==
  \E k \in 1..Len(KeysAndSecretsPatterns) : Search(KeysAndSecretsPatterns[k], file.content)

\* C19: in the step check_configuration_security, every configuration file
\* the detector opens and decodes that holds a literal assignment matching a
\* keys_and_secrets pattern gets a HIGH 'Configuration' finding that
\* references it, also when the step raises on a later file.
C19_SecretInConfigIsHigh ==
  [][pc = "check_configuration_security" =>
       \A i \in 1..Len(ConfigFiles) :
          (/\ \A j \in 1..i : ConfigFiles[j].readable
           /\ ConfigFiles[i].decodable
           /\ MatchesKeysAndSecrets(ConfigFiles[i]))
            => \E j \in References(Appended, ConfigFiles[i].name) :
                  /\ Appended[j].severity = "HIGH"
                  /\ Appended[j].category = "Configuration"
     ]_vars

\* A returned report over a tree with a configuration file that assigns a
\* literal secret, holding the HIGH 'Configuration' finding for that file.
C19_Witness ==
  /\ pc = "done"
  /\ \E i \in 1..Len(ConfigFiles) :
        /\ MatchesKeysAndSecrets(ConfigFiles[i])
        /\ \E j \in References(report[1].findings, ConfigFiles[i].name) :
              /\ report[1].findings[j].severity = "HIGH"
              /\ report[1].findings[j].category = "Configuration"

\* The category a strength is about.
StrengthCategory(strength) ==
  CASE strength = "Authentication mechanisms implemented"      -> "Authentication"
    [] strength = "HTTPS/TLS implemented for data in transit"  -> "Data Protection"
    [] strength = "Input validation mechanisms present"        -> "Input Validation"
    [] strength = "Rate limiting implemented"                  -> "Rate Limiting"
    [] strength = "Error handling implemented"                 -> "Error Handling"
    [] strength = "Logging mechanisms implemented"             -> "Logging"

\* C20: no strength of a returned report is about a category in which the
\* report has a CRITICAL or HIGH finding.
C20_NoStrengthWithSevereFinding ==
  \A n \in 1..Len(report) :
     \A s \in 1..Len(report[n].strengths) :
        \A j \in 1..Len(report[n].findings) :
           report[n].findings[j].category = StrengthCategory(report[n].strengths[s])
              => report[n].findings[j].severity \notin {"CRITICAL", "HIGH"}

(***************************************************************************)
(* Properties of the report                                                *)
(***************************************************************************)
SevereIn(fs, category) ==
  {j \in 1..Len(fs) : fs[j].category = category /\ fs[j].severity \in {"CRITICAL", "HIGH"}}

AllIn(fs, category) == {j \in 1..Len(fs) : fs[j].category = category}

Listed(rp, text) == \E w \in 1..Len(rp.weaknesses) : rp.weaknesses[w].text = text

CategoryListed(rp, category) ==
  \E w \in 1..Len(rp.weaknesses) : rp.weaknesses[w].category = category

\* C21: in every returned report, a finding category has an entry in the
\* weaknesses list exactly when it has at least two CRITICAL/HIGH findings or
\* at least three findings, and each of the four call-outs is listed exactly
\* when its evidence search finds no file.
C21_WeaknessesIff ==
  \A n \in 1..Len(report) :
     LET rp == report[n]
     IN  /\ \A category \in ({rp.findings[j].category : j \in 1..Len(rp.findings)}
                            \cup {rp.weaknesses[w].category : w \in 1..Len(rp.weaknesses)})
                            \ {""} :
               CategoryListed(rp, category)
                 <=> \/ Cardinality(SevereIn(rp.findings, category)) >= 2
                     \/ Cardinality(AllIn(rp.findings, category)) >= 3
         /\ Listed(rp, "No authentication mechanisms detected") <=> ~ has_auth(Tree)
         /\ Listed(rp, "Limited input validation") <=> ~ has_input_validation(Tree)
         /\ Listed(rp, "No HTTPS/TLS implementation detected") <=> ~ has_https(Tree)
         /\ Listed(rp, "No rate limiting mechanisms detected")
               <=> ~ any(_find_files_with_pattern(Tree, "rate_limit|throttle|limiter"))

CallOuts == {"No authentication mechanisms detected", "Limited input validation",
             "No HTTPS/TLS implementation detected", "No rate limiting mechanisms detected"}

\* A first report that lists one category for its two HIGH findings and
\* another for its three findings, next to a call-out.
C21_Witness ==
  /\ Len(report) = 1
  /\ Listed(report[1], "Multiple high-severity issues in ")
  /\ Listed(report[1], "Multiple issues in ")
  /\ \E text \in CallOuts : Listed(report[1], text)

\* A first report with a category entry, one call-out listed and one left
\* out because its evidence is in the tree.
C21_WitnessCallOutAbsent ==
  /\ Len(report) = 1
  /\ Listed(report[1], "Multiple high-severity issues in ")
  /\ Listed(report[1], "No rate limiting mechanisms detected")
  /\ has_auth(Tree)
  /\ ~ Listed(report[1], "No authentication mechanisms detected")

(***************************************************************************)
(* Properties of the rendering and of the command line                     *)
(***************************************************************************)
Rendered == profile.output_format = "markdown" /\ ~ profile.error

SectionsOf(md) == SelectSeq(md, LAMBDA line : line.kind = "h2")

RowsOf(md) == SelectSeq(md, LAMBDA line : line.kind = "row")

PositionOf(md, text) == CHOOSE i \in 1..Len(md) : md[i].kind = "h2" /\ md[i].text = text

\* C22: a markdown profile has its six sections in the order Basic
\* Information, Security Score, Executive Summary, Vulnerabilities,
\* Certification Details, Detailed Findings, and between the Vulnerabilities
\* and the Certification Details headings one table row per finding of the
\* report, row i carrying the ID F i and the severity, category and
\* description of finding i.
C22_SectionOrderAndRows ==
  Rendered =>
    LET md == profile.md_report
        fs == report[1].findings
    IN  /\ [i \in 1..Len(SectionsOf(md)) |-> SectionsOf(md)[i].text]
             = <<"## Basic Information", "## Security Score", "## Executive Summary",
                 "## Vulnerabilities", "## Certification Details", "## Detailed Findings">>
        /\ Len(RowsOf(md)) = Len(fs)
        /\ \A i \in 1..Len(fs) :
              /\ RowsOf(md)[i].text = "F"
              /\ RowsOf(md)[i].number = i
              /\ RowsOf(md)[i].cells = <<fs[i].severity, fs[i].category, fs[i].description>>
        /\ \A i \in 1..Len(md) :
              md[i].kind = "row" =>
                 /\ PositionOf(md, "## Vulnerabilities") < i
                 /\ i < PositionOf(md, "## Certification Details")

\* A markdown profile of a report with an INFO finding among at least six,
\* a strength, a weakness and a code snippet in the detailed findings.
C22_Witness ==
  /\ Rendered
  /\ Len(report[1].findings) >= 6
  /\ \E i \in 1..Len(report[1].findings) : report[1].findings[i].severity = "INFO"
  /\ report[1].strengths # <<>>
  /\ report[1].weaknesses # <<>>
  /\ \E i \in 1..Len(profile.md_report) : profile.md_report[i].snippet # {}

\* C23: when clone_repo or scan() raised, the process that has exited
\* produced the error payload of the requested format and exited with a
\* status other than 0.
C23_ScanErrorExitsNonZero ==
  (pc = "raised" /\ exit_code # Running) =>
     /\ profile = ErrorProfile(profile.output_format)
     /\ exit_code # 0

(***************************************************************************)
(* Further properties of the scores                                        *)
(***************************************************************************)
\* C24: when the weighted sum of the five bucket scores is exactly half way
\* between two multiples of 0.5, the overall score of the report is the
\* higher of the two.
C24_OverallTieRoundsUp ==
  (pc = "done" /\ ExactWeightedSum40(category_scores) % 20 = 10) =>
     report[1].scores.overall = ExactWeightedSum40(category_scores) \div 20 + 1

\* The order None < Bronze < Silver < Gold.
LevelRank(level) ==
  CASE level = "None" -> 0 [] level = "Bronze" -> 1 [] level = "Silver" -> 2
    [] level = "Gold" -> 3

\* The findings to put after a finding sequence: every severity in a
\* category of each kind (scored, counted by _has_proper_error_handling,
\* unmapped), and the finding _has_hardcoded_secrets looks for.
OneMoreFinding ==
  {Finding(sev, "N/A", cat, "Issue") :
     sev \in Severities,
     cat \in {"Authentication", "Data Protection", "Error Handling", "Configuration", "Other"}}
  \cup {Finding("HIGH", "N/A", "Secrets Management", "Hardcoded credential")}

MonotoneSeeds ==
  {Finding(sev, "N/A", "Authentication", "Issue") : sev \in {"CRITICAL", "HIGH", "MEDIUM", "LOW"}}
  \cup {Finding("LOW", "N/A", "Error Handling", "Issue"),
        Finding("HIGH", "N/A", "Error Handling", "Issue"),
        Finding("INFO", "N/A", "Other", "Issue"),
        Finding("HIGH", "N/A", "Secrets Management", "Hardcoded credential")}

\* Finding sequences F before line 93: LOW findings that take two buckets
\* down to their floor, so that the overall score crosses 8.5 and 7.0 with
\* no MEDIUM or HIGH finding, then a run of one finding and a run of
\* another; the tree has every evidence, the Bronze evidence, or none.
InitMonotone ==
  /\ profile = NoProfile
  /\ exit_code = Running
  /\ ran = NoneRan
  /\ security_files = NoFiles
  /\ repo_path = "directory"
  /\ repo \in {<<SourceFile("server.py", EvidenceLines)>>,
               <<SourceFile("server.py", BronzeLines)>>, <<>>}
  /\ \E x \in {0, 16, 17, 18}, y \in {0, 17, 18},
        f \in MonotoneSeeds, n \in 0..MaxRun, g \in MonotoneSeeds, k \in 0..1 :
        findings = Run(Finding("LOW", "N/A", "Data Protection", "Issue"), x)
                     \o Run(Finding("LOW", "N/A", "Input Validation", "Issue"), y)
                     \o Run(f, n) \o Run(g, k)
  /\ category_scores = InitScores
  /\ certification = NoCertification
  /\ report = <<>>
  /\ pc = "calculate_scores"

SpecMonotone == InitMonotone /\ [][NextPipeline]_vars

InitAnyOrder ==
  /\ profile = NoProfile
  /\ exit_code = Running
  /\ ran = NoneRan
  /\ security_files = NoFiles
  /\ repo_path = "directory"
  /\ repo \in AnyOrderTrees
  /\ findings = <<>>
  /\ category_scores = InitScores
  /\ certification = NoCertification
  /\ report = <<>>
  /\ pc = "detectors"

SpecAnyOrder == InitAnyOrder /\ [][NextAnyOrder]_vars

\* C25: for the findings F and the tree of a finished scan and any one more
\* finding f, every bucket score and the overall score computed from F
\* followed by f are at most those computed from F, and the level decided
\* for F followed by f on the same tree is not above the level decided for F.
C25_MonotoneInFindings ==
  pc = "done" =>
    \A f \in OneMoreFinding :
       LET more   == Append(findings, f)
           scores == _calculate_scores(more)
       IN  /\ \A b \in Buckets : scores[b] <= category_scores[b]
           /\ _calculate_overall_score(scores) <= report[1].scores.overall
           /\ LevelRank(_determine_certification_level(more, scores, Tree).level)
                 <= LevelRank(certification.level)

\* A scan decided Gold, for which one more finding lowers a bucket, the
\* overall score and the level, and another changes nothing.
C25_Witness ==
  /\ pc = "done"
  /\ certification.level = "Gold"
  /\ findings # <<>>
  /\ \E f \in OneMoreFinding :
        LET more   == Append(findings, f)
            scores == _calculate_scores(more)
        IN  /\ \E b \in Buckets : scores[b] < category_scores[b]
            /\ _calculate_overall_score(scores) < report[1].scores.overall
            /\ _determine_certification_level(more, scores, Tree).level = "Bronze"
  /\ \E f \in OneMoreFinding :
        _determine_certification_level(Append(findings, f), _calculate_scores(Append(findings, f)), Tree)
           = certification

(***************************************************************************)
(* Properties of the order of the detectors                                *)
(***************************************************************************)
RECURSIVE InCallOrder(_, _)
\* The findings of detectors k..14 when scan() calls them in its own order.
InCallOrder(results, k) ==
  IF k > Len(DetectorOrder) THEN <<>>
  ELSE results[k].findings \o InCallOrder(results, k + 1)

\* The findings scan() reports when the detectors run in call order.
CallOrderFindings ==
  LET r == os_walk(repo_path, repo)
      fs == InCallOrder(AnyOrderResults[repo][TRUE], 1)
  IN  [i \in 1..Len(fs) |-> WithSnippet(r, fs[i])]

Occurrences(fs, f) == Cardinality({i \in DOMAIN fs : fs[i] = f})

SameMultiset(fs, gs) ==
  /\ Len(fs) = Len(gs)
  /\ \A i \in DOMAIN fs : Occurrences(fs, fs[i]) = Occurrences(gs, fs[i])

\* C26: whatever the order of the fourteen detectors, and however their
\* appends interleave, the report has the same multiset of findings as the
\* scan in call order, and so the same bucket scores, overall score,
\* findings_summary counts and certification level; and a scan returns a
\* report in some order exactly when no detector raises.
C26_OrderOfDetectorsIsIrrelevant ==
  LET reference == CallOrderFindings
      scores    == _calculate_scores(reference)
      raises    == \E k \in DOMAIN ran : AnyOrderResults[repo][TRUE][k].raised
  IN  /\ pc = "done" =>
            /\ ~raises
            /\ SameMultiset(findings, reference)
            /\ category_scores = scores
            /\ report[1].scores.overall = _calculate_overall_score(scores)
            /\ report[1].findings_summary.total = Len(reference)
            /\ \A severity \in Severities :
                  CountSeverity(findings, severity) = CountSeverity(reference, severity)
            /\ report[1].findings_summary.high = CountSeverity(reference, "HIGH")
            /\ report[1].findings_summary.medium = CountSeverity(reference, "MEDIUM")
            /\ report[1].findings_summary.low = CountSeverity(reference, "LOW")
            /\ report[1].findings_summary.info = CountSeverity(reference, "INFO")
            /\ report[1].findings_summary.critical = CountSeverity(reference, "CRITICAL")
            /\ certification =
                  _determine_certification_level(reference, scores, os_walk(repo_path, repo))
      /\ pc = "raised" => raises

\* A report of a scan whose detectors ran out of call order, with the three
\* appends of the prompt detector apart from one another.
C26_Witness ==
  /\ pc = "done"
  /\ findings # CallOrderFindings
  /\ \E i, j \in DOMAIN findings :
        /\ i + 1 < j
        /\ findings[i].category = "Prompt Security"
        /\ findings[j].category = "Prompt Security"
        /\ findings[i + 1].category # "Prompt Security"
        /\ findings[j - 1].category # "Prompt Security"

(***************************************************************************)
(* Properties of the file classification                                   *)
(***************************************************************************)
AgentFile(dir, name, readable, decodable, content) ==
  [dir |-> dir, name |-> name, readable |-> readable, decodable |-> decodable,
   content |-> content]

\* Every file of the vocabulary, with at most MaxLines lines.
AgentFiles ==
  {AgentFile(dir, name, readable, decodable, content) :
     dir \in AgentDirs, name \in AgentNames, readable \in BOOLEAN, decodable \in BOOLEAN,
     content \in {c \in SUBSET AgentLines : Cardinality(c) <= MaxLines}}

\* Files that stand next to another file in a repository of two.
AgentSiblings ==
  {AgentFile("", "helpers.py", TRUE, TRUE, {"def Login(user):", "import Settings"}),
   AgentFile("", "notes.txt", TRUE, TRUE, {"TOKEN = 'x'"}),
   AgentFile("", "app_config.py", TRUE, TRUE, {"def Login(user):"}),
   AgentFile(".git", "config.py", TRUE, TRUE, {}),
   AgentFile("", "setup.py", FALSE, TRUE, {})}

InitAgent ==
  /\ profile = NoProfile
  /\ exit_code = Running
  /\ ran = NoneRan
  /\ security_files = NoFiles
  /\ repo_path = "directory"
  /\ repo \in {<<f>> : f \in AgentFiles}
            \cup {t \in {<<f, g>> : f, g \in AgentSiblings} : t[1] # t[2]}
  /\ findings = <<>>
  /\ category_scores = InitScores
  /\ certification = NoCertification
  /\ report = <<>>
  /\ pc = "extract_security_files"

SpecAgent == InitAgent /\ [][ExtractSecurityFiles]_vars

RoleOrder == <<"config", "auth", "api", "main", "docs", "dependencies">>

\* The lists of names and suffixes of a role.
RolePatterns(role) ==
  LET i == CHOOSE j \in DOMAIN file_patterns : file_patterns[j].category = role
  IN  {file_patterns[i].patterns[j] : j \in DOMAIN file_patterns[i].patterns}

NameRoles(file) ==
  {i \in DOMAIN RoleOrder : \E pattern \in RolePatterns(RoleOrder[i]) : file.name \in NameHits(pattern)}

KeywordOrder ==
  <<[role |-> "auth",   keywords |-> {"auth", "login", "token"}],
    [role |-> "api",    keywords |-> {"app.route", "fastapi", "endpoint"}],
    [role |-> "config", keywords |-> {"config", "settings", "environment"}],
    [role |-> "main",   keywords |-> {"if __name__ == '__main__'"}]>>

ContentRoles(file) ==
  {i \in DOMAIN KeywordOrder : \E keyword \in KeywordOrder[i].keywords : InContent(keyword, file)}

Least(S) == CHOOSE i \in S : \A j \in S : i <= j

\* The tag the mapping gives a file of the repository, NoType for none.
TagOf(file) ==
  IF PathParts(file) \in DOMAIN security_files THEN security_files[PathParts(file)]
  ELSE NoType

OutsideGit(file) == \A i \in DOMAIN PathParts(file) : PathParts(file)[i] # ".git"

\* The tag by the rules: the first role whose list matches the name; with
\* no such role, and when the content rule applies, the first keyword group
\* found in the text.
RuleTag(file, content_rule) ==
  IF NameRoles(file) # {} THEN RoleOrder[Least(NameRoles(file))]
  ELSE IF content_rule /\ ContentRoles(file) # {}
    THEN KeywordOrder[Least(ContentRoles(file))].role
  ELSE NoType

\* C27 as stated: in the returned mapping every file outside version-control
\* metadata that opens and decodes as text has the first role matching its name, or,
\* with no name rule matching, the first keyword group of auth, api, config,
\* main found in its lowercased content.
C27_FirstMatchWins ==
  pc = "extracted" =>
    \A i \in DOMAIN repo :
       (OutsideGit(repo[i]) /\ repo[i].readable /\ repo[i].decodable)
          => TagOf(repo[i]) = RuleTag(repo[i], TRUE)

\* C27 amended: the content rule applies only to a file whose name ends in
\* ".py"; any other file matched by no name rule has no tag, as has a file
\* under .git or one that does not decode; no path has two tags.
C27_FirstMatchWinsPythonContent ==
  pc = "extracted" =>
    /\ \A i \in DOMAIN repo :
         TagOf(repo[i]) =
           IF OutsideGit(repo[i]) /\ repo[i].decodable
             THEN RuleTag(repo[i], repo[i].name \in NameHits(".py"))
             ELSE NoType
    /\ DOMAIN security_files \subseteq {PathParts(repo[i]) : i \in DOMAIN repo}

\* A Python file matched by no name rule whose text has a keyword of auth
\* and one of config is tagged auth, next to a text file with a keyword
\* that gets no tag.
C27_Witness ==
  /\ pc = "extracted"
  /\ \E i, j \in DOMAIN repo :
        /\ repo[i].name = "helpers.py"
        /\ ContentRoles(repo[i]) = {1, 3}
        /\ TagOf(repo[i]) = "auth"
        /\ repo[j].name = "notes.txt"
        /\ ContentRoles(repo[j]) # {}
        /\ TagOf(repo[j]) = NoType

(***************************************************************************)
(* Properties of the prompt findings                                       *)
(***************************************************************************)
\* The findings of the prompt detector that carry a penalty.
PromptPenalised(fs) ==
  {i \in DOMAIN fs : /\ fs[i].category = "Prompt Security"
                     /\ fs[i].severity \in {"HIGH", "MEDIUM", "LOW"}}

\* C28: in a report whose findings include a 'Prompt Security' finding of
\* severity HIGH, MEDIUM or LOW, the prompt_security score is below 10.0.
C28_PromptFindingLowersBucket ==
  (pc = "done" /\ PromptPenalised(findings) # {}) =>
     /\ category_scores["prompt_security"] < 20
     /\ report[Len(report)].scores.prompt_security < 20

(***************************************************************************)
(* Properties of the findings list                                         *)
(***************************************************************************)
\* C29: the findings of a scan never hold two findings equal in every
\* field; a rule that matches a file by several patterns has one finding
\* for that file.
C29_NoTwoEqualFindings ==
  FirstScan =>
    \A i, j \in DOMAIN findings : findings[i] = findings[j] => i = j

(***************************************************************************)
(* Properties of the severities                                            *)
(***************************************************************************)
\* C30: no detector appends a CRITICAL finding: the findings list never
\* holds one, and every report of scan() has findings_summary.critical = 0
\* and an empty CRITICAL group, so the certification is always decided with
\* a critical count of 0.
C30_NoCriticalFinding ==
  /\ \A i \in DOMAIN findings : findings[i].severity # "CRITICAL"
  /\ \A n \in DOMAIN report :
        /\ report[n].findings_summary.critical = 0
        /\ report[n].grouped_findings["CRITICAL"] = <<>>
  /\ pc \in {"determine_certification_level", "report", "done"}
        => CountSeverity(findings, "CRITICAL") = 0

\* A report with findings of each of the four other severities.
C30_Witness ==
  /\ pc = "done"
  /\ \A severity \in Severities \ {"CRITICAL"} :
        report[Len(report)].grouped_findings[severity] # <<>>
  /\ report[Len(report)].findings_summary.high > 0
  /\ report[Len(report)].findings_summary.critical = 0

====
